---- MODULE Spec2Model ----
(***************************************************************************)
(* Model of the CSE tools: the API client (app.py), the company roster     *)
(* loaders, the per-entity fetch loops (company_analyzer.py, app.py,       *)
(* tools/enhanced_analyzer.py) and the metric derivation.                  *)
(*                                                                         *)
(* JSON / Python values are encoded as tuples so that values of different  *)
(* Python types can be compared:                                           *)
(*   None            <<>>                                                  *)
(*   a string s      <<s>>                                                 *)
(*   a number n/d    <<n, d>>   (a normalised rational, d > 0)             *)
(* A division by zero yields <<1, 0>> (ZeroDivisionError), which every     *)
(* later arithmetic step propagates; the caller turns it into a raise.     *)
(* A dict is a function whose DOMAIN is the set of keys that are present.  *)
(***************************************************************************)
EXTENDS Integers, Sequences, FiniteSets, TLC

VARIABLES
    tool,              \* which script / class is running
    file,              \* content of company_data/data.json
    company_data,      \* self.company_data
    limit,             \* the limit argument of the fetch loop
    pc,                \* position of the running tool
    i,                 \* number of loop iterations started (enumerate index)
    exchange,          \* the HTTP exchange of the last _make_request call
    result,            \* the last value returned by CSE_API._make_request
    analysis_results,  \* self.analysis_results
    failed_requests,   \* self.failed_requests / local failed_requests
    all_companies,     \* local all_companies of get_all_companies
    returned,          \* the value returned by get_all_companies
    trace,             \* events <<"api", entity, outcome>>, Sleep and Start
    raised,            \* the exception that escaped to the caller, or "none"
    symbol_info,       \* argument of calculate_investment_metrics
    beta_info,         \* argument of calculate_investment_metrics
    company_info,      \* argument of _calculate_risk_category
    metrics,           \* value returned by the metric function
    report,            \* value returned by the last generate_investment_analysis
    prev_report,       \* value returned by the call before the last
    now,               \* the wall clock, in seconds
    written,           \* the files save_analysis has written, in order
    fs,                \* the file system the last save_analysis ran on
    method,            \* the CSE_ReportDownloader method that was called
    symbol_or_name,    \* argument of download_reports_by_company_name
    security_id,       \* security_id of download_reports_by_date_range
    announcements,     \* the announcements the download loop runs over
    download_folder,   \* the folder create_download_folder returned
    download_results,  \* local download_results of the download loop
    successful_downloads,  \* local counter of the download loop
    failed_downloads   \* local counter of the download loop

vars == <<tool, file, company_data, limit, pc, i, exchange, result,
          analysis_results,
          failed_requests, all_companies, returned, trace, raised,
          symbol_info, beta_info, company_info, metrics,
          report, prev_report, now, written, fs,
          method, symbol_or_name, security_id, announcements, download_folder,
          download_results, successful_downloads, failed_downloads>>

toolVars == <<tool, file, company_data, limit, i, exchange, result,
              analysis_results,
              failed_requests, all_companies, returned, trace>>

metricVars == <<symbol_info, beta_info, company_info, metrics>>

reportVars == <<report, prev_report, now, written, fs>>

downloadVars == <<method, symbol_or_name, security_id, announcements,
                  download_folder, download_results, successful_downloads,
                  failed_downloads>>

----------------------------------------------------------------------------
(* Python values *)

None == <<>>

Str(s) == <<s>>

RECURSIVE GCD(_, _)
GCD(a, b) == IF b = 0 THEN a ELSE GCD(b, a % b)

Abs(n) == IF n < 0 THEN -n ELSE n

ZeroDivisionError == <<1, 0>>

\* the rational n/d in lowest terms with a positive denominator
Q(n, d) ==
    IF d = 0 THEN ZeroDivisionError
    ELSE LET g == GCD(Abs(n), Abs(d))
             s == IF d < 0 THEN -1 ELSE 1
         IN  <<(s * n) \div g, (s * d) \div g>>

IsNum(v) == Len(v) = 2

IsErr(v) == IsNum(v) /\ v[2] = 0

\* Python truthiness of None, a string, a number, a JSON object or a list
Truthy(v) ==
    CASE Len(v) = 0 -> FALSE
      [] Len(v) = 1 -> v[1] # ""
      [] Len(v) = 2 -> v[1] # 0
      [] Len(v) = 3 -> DOMAIN v[2] # {}
      [] OTHER      -> Len(v[2]) > 0

Sub(a, b) ==
    IF IsErr(a) \/ IsErr(b) THEN ZeroDivisionError
    ELSE Q(a[1] * b[2] - b[1] * a[2], a[2] * b[2])

Div(a, b) ==
    IF IsErr(a) \/ IsErr(b) \/ b[1] = 0 THEN ZeroDivisionError
    ELSE Q(a[1] * b[2], a[2] * b[1])

Mul(a, b) ==
    IF IsErr(a) \/ IsErr(b) THEN ZeroDivisionError
    ELSE Q(a[1] * b[1], a[2] * b[2])

Gt(a, b) == a[1] * b[2] > b[1] * a[2]

Lt(a, b) == a[1] * b[2] < b[1] * a[2]

\* dict.get(key, default)
Get(d, k, default) == IF k \in DOMAIN d THEN d[k] ELSE default

EmptyDict == [k \in {} |-> None]

\* key in dict
Has(d, k) == k \in DOMAIN d

\* the key is in the dict and its value is not None
Present(d, k) == k \in DOMAIN d /\ d[k] # None

\* a dict literal from which the keys marked Absent are left out
Absent == <<"absent", "key", "marker">>

Dict(f) == [k \in {x \in DOMAIN f : f[x] # Absent} |-> f[k]]

----------------------------------------------------------------------------
(* company_analyzer.py: calculate_investment_metrics *)

PriceChange(last_price, prev_close) ==
    IF Truthy(last_price) /\ Truthy(prev_close)
    THEN "price_change_pct" :>
            Mul(Div(Sub(last_price, prev_close), prev_close), Q(100, 1))
    ELSE EmptyDict

\* mutant: the test high != low is dropped
RangeMetrics_noDegenerateTest(last_price, high, low, volKey, posKey) ==
    IF Truthy(high) /\ Truthy(low)
    THEN (volKey :> Mul(Div(Sub(high, low), low), Q(100, 1)))
         @@ (IF Truthy(last_price)
             THEN posKey :>
                    Mul(Div(Sub(last_price, low), Sub(high, low)), Q(100, 1))
             ELSE EmptyDict)
    ELSE EmptyDict

\* mutant: the range position is taken relative to the high, not the range
RangeMetrics_positionOverHigh(last_price, high, low, volKey, posKey) ==
    IF Truthy(high) /\ Truthy(low) /\ high # low
    THEN (volKey :> Mul(Div(Sub(high, low), low), Q(100, 1)))
         @@ (IF Truthy(last_price)
             THEN posKey :>
                    Mul(Div(Sub(last_price, low), high), Q(100, 1))
             ELSE EmptyDict)
    ELSE EmptyDict

\* the nesting of the position under the volatility test is the source's
RangeMetrics(last_price, high, low, volKey, posKey) ==
    IF Truthy(high) /\ Truthy(low) /\ high # low
    THEN (volKey :> Mul(Div(Sub(high, low), low), Q(100, 1)))
         @@ (IF Truthy(last_price)
             THEN posKey :>
                    Mul(Div(Sub(last_price, low), Sub(high, low)), Q(100, 1))
             ELSE EmptyDict)
    ELSE EmptyDict

BookValue(market_cap, quantity_issued) ==
    IF Truthy(market_cap) /\ Truthy(quantity_issued)
    THEN "book_value_per_share" :> Div(market_cap, quantity_issued)
    ELSE EmptyDict

Liquidity(last_price, ytd_volume, ytd_turnover) ==
    IF Truthy(ytd_volume) /\ Truthy(ytd_turnover)
    THEN LET avg == Div(ytd_turnover, ytd_volume)
         IN  ("avg_price_ytd" :> avg)
             @@ (IF Truthy(last_price) /\ Truthy(avg)
                 THEN "price_vs_ytd_avg" :>
                        Mul(Div(Sub(last_price, avg), avg), Q(100, 1))
                 ELSE EmptyDict)
    ELSE EmptyDict

RiskOfBeta(beta_asi) ==
    IF Truthy(beta_asi)
    THEN "risk_category" :>
            (IF Gt(beta_asi, Q(3, 2)) THEN Str("High Risk")
             ELSE IF Gt(beta_asi, Q(1, 1)) THEN Str("Medium Risk")
             ELSE IF Gt(beta_asi, Q(1, 2)) THEN Str("Low Risk")
             ELSE Str("Very Low Risk"))
    ELSE EmptyDict

\* mutant: the risk bucket is nested under a test of the last price
calculate_investment_metrics_riskUnderPrice(si, bi) ==
    LET last_price == Get(si, "lastTradedPrice", Q(0, 1))
        prev_close == Get(si, "previousClose", Q(0, 1))
        ytd_high   == Get(si, "ytdHiPrice", Q(0, 1))
        ytd_low    == Get(si, "ytdLowPrice", Q(0, 1))
        p12_high   == Get(si, "p12HiPrice", Q(0, 1))
        p12_low    == Get(si, "p12LowPrice", Q(0, 1))
        market_cap == Get(si, "marketCap", Q(0, 1))
        quantity_issued == Get(si, "quantityIssued", Q(0, 1))
        ytd_volume == Get(si, "ytdShareVolume", Q(0, 1))
        ytd_turnover == Get(si, "ytdTurnover", Q(0, 1))
        beta_asi   == Get(bi, "triASIBetaValue", None)
    IN  PriceChange(last_price, prev_close)
        @@ RangeMetrics(last_price, ytd_high, ytd_low,
                        "ytd_volatility", "position_in_ytd_range")
        @@ RangeMetrics(last_price, p12_high, p12_low,
                        "p12_volatility", "position_in_p12_range")
        @@ BookValue(market_cap, quantity_issued)
        @@ Liquidity(last_price, ytd_volume, ytd_turnover)
        @@ (IF Truthy(last_price) THEN RiskOfBeta(beta_asi) ELSE EmptyDict)

calculate_investment_metrics(si, bi) ==
    LET last_price == Get(si, "lastTradedPrice", Q(0, 1))
        prev_close == Get(si, "previousClose", Q(0, 1))
        ytd_high   == Get(si, "ytdHiPrice", Q(0, 1))
        ytd_low    == Get(si, "ytdLowPrice", Q(0, 1))
        p12_high   == Get(si, "p12HiPrice", Q(0, 1))
        p12_low    == Get(si, "p12LowPrice", Q(0, 1))
        market_cap == Get(si, "marketCap", Q(0, 1))
        quantity_issued == Get(si, "quantityIssued", Q(0, 1))
        ytd_volume == Get(si, "ytdShareVolume", Q(0, 1))
        ytd_turnover == Get(si, "ytdTurnover", Q(0, 1))
        beta_asi   == Get(bi, "triASIBetaValue", None)
    IN  PriceChange(last_price, prev_close)
        @@ RangeMetrics(last_price, ytd_high, ytd_low,
                        "ytd_volatility", "position_in_ytd_range")
        @@ RangeMetrics(last_price, p12_high, p12_low,
                        "p12_volatility", "position_in_p12_range")
        @@ BookValue(market_cap, quantity_issued)
        @@ Liquidity(last_price, ytd_volume, ytd_turnover)
        @@ RiskOfBeta(beta_asi)

\* a division by zero anywhere in the computation raises out of the call
MetricsRaise(m) ==
    IF \E k \in DOMAIN m : IsErr(m[k]) THEN "ZeroDivisionError" ELSE "none"

----------------------------------------------------------------------------
(* tools/enhanced_analyzer.py: _calculate_risk_category *)

\* float(x): None raises TypeError, a number converts
FloatRaises(v) == ~IsNum(v)

calculate_risk_category(ci) ==
    LET cp == Get(ci, "lastTradedPrice", Q(0, 1))
        hi == Get(ci, "high52Week", Q(0, 1))
        lo == Get(ci, "low52Week", Q(0, 1))
    IN  IF FloatRaises(cp) \/ FloatRaises(hi) \/ FloatRaises(lo)
        THEN Str("Risk Unknown")
        ELSE IF Gt(hi, Q(0, 1)) /\ Gt(lo, Q(0, 1))
        THEN LET volatility == Div(Sub(hi, lo), lo)
             IN  IF Lt(volatility, Q(1, 5)) THEN Str("Very Low Risk")
                 ELSE IF Lt(volatility, Q(1, 2)) THEN Str("Low Risk")
                 ELSE IF Lt(volatility, Q(1, 1)) THEN Str("Medium Risk")
                 ELSE IF Lt(volatility, Q(2, 1)) THEN Str("High Risk")
                 ELSE Str("Very High Risk")
        ELSE Str("Risk Unknown")

----------------------------------------------------------------------------
(* JSON containers; None, strings and numbers are as above *)

Obj(d) == <<"object", d, 0>>

List(l) == <<"list", l, 0, 0>>

IsObj(v) == Len(v) = 3

IsList(v) == Len(v) = 4

Num(n) == Q(n, 1)

Min(a, b) == IF a < b THEN a ELSE b

----------------------------------------------------------------------------
(* app.py: CSE_API._make_request *)

\* One HTTP exchange as the requests library presents it: the connection
\* fails or times out, or a response arrives with a status and a body.
\* For a body that is not JSON, response.json() raises
\* requests.exceptions.JSONDecodeError (a RequestException and a
\* json.JSONDecodeError) or a plain json.JSONDecodeError, depending on the
\* installed requests version: lib says which.
Exchanges(payloads) ==
    {[net |-> n, status |-> 0, body |-> "", lib |-> "", data |-> None] :
        n \in {"ConnectionError", "Timeout"}}
    \cup {[net |-> "response", status |-> st, body |-> "html", lib |-> "",
           data |-> None] : st \in {404, 500}}
    \cup {[net |-> "response", status |-> 200, body |-> "not_json", lib |-> l,
           data |-> None] : l \in {"requests", "json"}}
    \cup {[net |-> "response", status |-> 200, body |-> "json", lib |-> "",
           data |-> d] : d \in payloads}

\* before the first call
\* no save has run
NoFileSystem == [reports_dir |-> FALSE, fails |-> ""]

\* no method of the downloader has been called
NoDownload ==
    /\ method = ""
    /\ symbol_or_name = None
    /\ security_id = None
    /\ announcements = <<>>
    /\ download_folder = None
    /\ download_results = <<>>
    /\ successful_downloads = 0
    /\ failed_downloads = 0

NoExchange == [net |-> "none", status |-> 0, body |-> "", lib |-> "", data |-> None]

\* the exception raised inside the try block, or "none"
TryBlock(x) ==
    IF x.net # "response" THEN x.net
    ELSE IF x.status >= 400 /\ x.status < 600 THEN "HTTPError"
    ELSE IF x.body = "not_json"
         THEN (IF x.lib = "requests" THEN "requests.JSONDecodeError"
               ELSE "json.JSONDecodeError")
    ELSE "none"

IsRequestException(e) ==
    e \in {"ConnectionError", "Timeout", "HTTPError", "requests.JSONDecodeError"}

IsJSONDecodeError(e) ==
    e \in {"requests.JSONDecodeError", "json.JSONDecodeError"}

\* mutant: the first handler catches HTTPError only
make_request_httpErrorOnly(x) ==
    LET e == TryBlock(x)
    IN  IF e = "none"
        THEN [success |-> TRUE, status_code |-> Num(x.status), data |-> x.data]
        ELSE IF e = "HTTPError"
        THEN [success |-> FALSE, error |-> Str(e),
              status_code |-> Num(x.status)]
        ELSE IF IsJSONDecodeError(e)
        THEN [success |-> FALSE, error |-> Str("Failed to decode JSON response"),
              status_code |-> Num(x.status)]
        ELSE [raise |-> e]

\* the returned dict; [raise |-> e] when the exception e escapes
make_request(x) ==
    LET e == TryBlock(x)
    IN  IF e = "none"
        THEN [success |-> TRUE, status_code |-> Num(x.status), data |-> x.data]
        ELSE IF IsRequestException(e)
        THEN [success |-> FALSE, error |-> Str(e),
              status_code |-> IF e = "HTTPError" THEN Num(x.status) ELSE None]
        ELSE IF IsJSONDecodeError(e)
        THEN [success |-> FALSE, error |-> Str("Failed to decode JSON response"),
              status_code |-> Num(x.status)]
        ELSE [raise |-> e]

----------------------------------------------------------------------------
(* company_data/data.json and its loaders *)

MaxRoster == 3

Companies ==
    { [symbol |-> Str("AAA.N0000"), name |-> Str("AAA PLC"), securityId |-> Num(1)],
      [symbol |-> Str("BBB.N0000"), securityId |-> Num(2)] }

RECURSIVE SeqsUpTo(_, _)
SeqsUpTo(S, n) ==
    IF n = 0 THEN {<<>>}
    ELSE LET shorter == SeqsUpTo(S, n - 1)
         IN  shorter \cup {Append(q, x) : q \in shorter, x \in S}

Rosters == SeqsUpTo(Companies, MaxRoster)

\* the file is missing, holds bytes that are not UTF-8, holds text that is
\* not JSON, or holds a JSON array of company records
Files ==
    {<<k, <<>>>> : k \in {"absent", "bad_encoding", "bad_json"}}
    \cup {<<"ok", r>> : r \in Rosters}

\* open(...) and json.load(f): the exception raised, or "none"
OpenAndParse(f) ==
    CASE f[1] = "absent"       -> "FileNotFoundError"
      [] f[1] = "bad_encoding" -> "UnicodeDecodeError"
      [] f[1] = "bad_json"     -> "JSONDecodeError"
      [] OTHER                 -> "none"

\* mutant: no handler for a missing file
load_company_data_noFileHandler(f) ==
    LET e == OpenAndParse(f)
    IN  IF e = "none" THEN [value |-> f[2], raise |-> "none"]
        ELSE IF e = "FileNotFoundError" THEN [value |-> <<>>, raise |-> e]
        ELSE [value |-> <<>>, raise |-> "none"]

\* company_analyzer.py: except FileNotFoundError / except Exception
load_company_data(f) ==
    LET e == OpenAndParse(f)
    IN  IF e = "none" THEN [value |-> f[2], raise |-> "none"]
        ELSE IF e = "FileNotFoundError" THEN [value |-> <<>>, raise |-> "none"]
        ELSE [value |-> <<>>, raise |-> "none"]

\* download_financial_reports.py: except FileNotFoundError / except Exception
downloader_load_company_data(f) ==
    LET e == OpenAndParse(f)
    IN  IF e = "none" THEN [value |-> f[2], raise |-> "none"]
        ELSE IF e = "FileNotFoundError" THEN [value |-> <<>>, raise |-> "none"]
        ELSE [value |-> <<>>, raise |-> "none"]

\* enhanced_analyzer.py: except FileNotFoundError / except json.JSONDecodeError
enhanced_load_company_data(f) ==
    LET e == OpenAndParse(f)
    IN  IF e = "none" THEN [value |-> f[2], raise |-> "none"]
        ELSE IF e = "FileNotFoundError" THEN [value |-> <<>>, raise |-> "none"]
        ELSE IF e = "JSONDecodeError" THEN [value |-> <<>>, raise |-> "none"]
        ELSE [value |-> <<>>, raise |-> e]

----------------------------------------------------------------------------
(* company_analyzer.py: the fetch loop of CSE_InvestmentAnalyzer *)

\* bodies the companyInfoSummery endpoint may answer with for one symbol
FullSymbolInfo(symbol) ==
    [symbol |-> symbol, name |-> Str("LISTED PLC"),
     lastTradedPrice |-> Num(75), previousClose |-> Num(50),
     changePercentage |-> Num(50), ytdHiPrice |-> Num(100),
     ytdLowPrice |-> Num(50), marketCap |-> Num(1000),
     quantityIssued |-> Num(10), tdyShareVolume |-> Num(10)]

CompanyInfoPayloads(symbol) ==
    { Obj([reqSymbolInfo |-> Obj(FullSymbolInfo(symbol)),
           reqSymbolBetaInfo |-> Obj([triASIBetaValue |-> Q(9, 5)]),
           reqLogo |-> None]),
      Obj([reqSymbolInfo |->
              Obj([symbol |-> symbol, lastTradedPrice |-> Num(75),
                   previousClose |-> Num(0)]),
           reqSymbolBetaInfo |-> Obj(EmptyDict)]),
      Obj([reqSymbolInfo |-> None, reqSymbolBetaInfo |-> None]),
      Obj([lastTradedPrice |-> Num(75), changePercentage |-> Num(2),
           marketCap |-> None, high52Week |-> Num(100), low52Week |-> Num(50)]),
      None }

get_company_summary(res) ==
    IF Has(res, "raise") THEN [success |-> FALSE, error |-> Str(res["raise"])]
    ELSE IF res["success"] THEN [success |-> TRUE, data |-> res["data"]]
    ELSE [success |-> FALSE, error |-> res["error"]]

\* dict.get(key): None when the key is missing
GetNone(d, k) == Get(d, k, None)

\* the record of one company; {} when anything inside the try raises (.get
\* on a value that is not a dict, a division by zero).  The fields kept are
\* the ones the loop and the aggregation read.
extract_comprehensive_data(cd) ==
    IF ~IsObj(cd) THEN EmptyDict
    ELSE LET d  == cd[2]
             si == Get(d, "reqSymbolInfo", Obj(EmptyDict))
             bi == Get(d, "reqSymbolBetaInfo", Obj(EmptyDict))
             lg == Get(d, "reqLogo", Obj(EmptyDict))
         IN  IF ~IsObj(si) \/ ~IsObj(bi) \/ (lg # None /\ ~IsObj(lg))
             THEN EmptyDict
             ELSE LET m == calculate_investment_metrics(si[2], bi[2])
                      base_data ==
                         [symbol |-> GetNone(si[2], "symbol"),
                          name |-> GetNone(si[2], "name"),
                          last_traded_price |-> GetNone(si[2], "lastTradedPrice"),
                          previous_close |-> GetNone(si[2], "previousClose"),
                          change_percentage |-> GetNone(si[2], "changePercentage"),
                          ytd_high |-> GetNone(si[2], "ytdHiPrice"),
                          ytd_low |-> GetNone(si[2], "ytdLowPrice"),
                          today_volume |-> GetNone(si[2], "tdyShareVolume"),
                          today_turnover |-> GetNone(si[2], "tdyTurnover"),
                          market_cap |-> GetNone(si[2], "marketCap"),
                          tri_asi_beta |-> GetNone(bi[2], "triASIBetaValue")]
                  IN  IF MetricsRaise(m) # "none" THEN EmptyDict
                      ELSE m @@ base_data

\* f"{change_pct:+.2f}" raises TypeError unless change_pct is a number
DisplayRaises(company_analysis) ==
    ~IsNum(Get(company_analysis, "change_percentage", Num(0)))

\* self.company_data[:limit] if limit else self.company_data
companies_to_analyze(l) ==
    IF Truthy(l)
    THEN SubSeq(company_data, 1, Min(l[1], Len(company_data)))
    ELSE company_data

CompaniesToAnalyze == companies_to_analyze(limit)

Limits == {None} \cup {Num(k) : k \in 0..MaxRoster}

Sleep == <<"sleep", None, "">>

\* the loop of one analyze_companies call is entered
Start == <<"start", None, "">>

\* records and failures one analyzer instance collects over its calls
MaxRecords == 2

Api(entity, ok) == <<"api", entity, IF ok THEN "ok" ELSE "failed">>

\* CSE_InvestmentAnalyzer.__init__
AnalyzerConstruct ==
    /\ tool = "company_analyzer"
    /\ pc = "start"
    /\ LET l == load_company_data(file)
       IN  /\ company_data' = l.value
           /\ raised' = l.raise
           /\ pc' = IF l.raise = "none" THEN "constructed" ELSE "raised"
    /\ UNCHANGED <<tool, file, limit, i, exchange, result, analysis_results,
                   failed_requests, all_companies, returned, trace, metricVars, reportVars,
                   downloadVars>>

\* analyze_companies up to the loop: the early return on an empty roster.
\* The method may be called again on the same instance once a call has
\* returned; neither list is reset at the start of a call.
AnalyzeCompanies ==
    /\ tool = "company_analyzer"
    /\ pc \in {"constructed", "done"}
    /\ \E l \in Limits :
          /\ limit' = l
          /\ pc = "done" =>
                Len(analysis_results) + Len(failed_requests)
                   + Len(companies_to_analyze(l)) <= MaxRecords
    /\ i' = 0
    /\ pc' = IF company_data = <<>> THEN "done" ELSE "loop"
    /\ trace' = IF company_data = <<>> THEN trace ELSE Append(trace, Start)
    /\ UNCHANGED <<tool, file, company_data, exchange, result, analysis_results,
                   failed_requests, all_companies, returned, raised,
                   metricVars, reportVars,
                   downloadVars>>

\* one pass through the loop body, and the end of the call after the last
AnalyzeIteration ==
    /\ tool = "company_analyzer"
    /\ pc = "loop"
    /\ LET total   == Len(CompaniesToAnalyze)
           company == CompaniesToAnalyze[i + 1]
           symbol  == GetNone(company, "symbol")
           name    == Get(company, "name", Str("Unknown"))
       IN  \E x \in Exchanges(CompanyInfoPayloads(symbol)) :
             LET res     == make_request(x)
                 summary == get_company_summary(res)
                 company_analysis ==
                    ("source_data" :> company)
                       @@ extract_comprehensive_data(summary["data"])
                 crash   == summary["success"] /\ DisplayRaises(company_analysis)
             IN  /\ exchange' = x
                 /\ result' = res
                 /\ i' = i + 1
                 /\ analysis_results' =
                       IF summary["success"]
                       THEN Append(analysis_results, company_analysis)
                       ELSE analysis_results
                 /\ failed_requests' =
                       IF summary["success"] THEN failed_requests
                       ELSE Append(failed_requests,
                                   [symbol |-> symbol, name |-> name,
                                    error |-> Get(summary, "error",
                                                  Str("Unknown error"))])
                 /\ trace' = Append(trace, Api(symbol, summary["success"]))
                               \o (IF ~crash /\ i + 1 < total
                                   THEN <<Sleep>> ELSE <<>>)
                 /\ raised' = IF crash THEN "TypeError" ELSE raised
                 /\ pc' = IF crash THEN "raised"
                          ELSE IF i + 1 < total THEN "loop" ELSE "done"
    /\ UNCHANGED <<tool, file, company_data, limit, all_companies, returned,
                   metricVars, reportVars,
                   downloadVars>>

----------------------------------------------------------------------------
(* app.py: CSE_API.get_all_companies *)

NumLetters == 3

\* the first NumLetters letters of string.ascii_uppercase
Letters == SubSeq(<<"A", "B", "C", "D", "E", "F", "G", "H", "I", "J", "K",
                    "L", "M", "N", "O", "P", "Q", "R", "S", "T", "U", "V",
                    "W", "X", "Y", "Z">>, 1, NumLetters)

Listed(letter, n, traded) ==
    [symbol |-> Str(letter), id |-> Num(n), lastTradedTime |-> traded]

\* bodies the alphabetical endpoint may answer with for one letter
AlphabeticalPayloads(letter) ==
    { Obj([reqAlphabetical |->
              List(<<Listed(letter, 1, Num(1)), Listed(letter, 2, None)>>)]),
      Obj([reqAlphabetical |-> List(<<>>)]),
      Obj([message |-> Str("no data")]),
      List(<<Listed(letter, 1, Num(1))>>) }

\* the companies taken from a successful response
UnwrapAlphabetical(data) ==
    IF IsObj(data) /\ Has(data[2], "reqAlphabetical")
    THEN data[2]["reqAlphabetical"]
    ELSE IF IsList(data) THEN data
    ELSE List(<<>>)

HasTraded(c) == GetNone(c, "lastTradedTime") # None

\* one pass through the loop body; after the last letter the rest of the
\* function (the active filter and the return)
GetAllCompaniesIteration ==
    /\ tool = "get_all_companies"
    /\ pc \in {"start", "loop"}
    /\ LET letter == Letters[i + 1]
       IN  \E x \in Exchanges(AlphabeticalPayloads(letter)) :
             LET response  == make_request(x)
                 escaped   == Has(response, "raise")
                 ok        == ~escaped /\ response["success"]
                 companies == UnwrapAlphabetical(response["data"])
                 all       == IF ok /\ Truthy(companies)
                              THEN all_companies \o companies[2]
                              ELSE all_companies
                 failed    == IF escaped \/ ok THEN failed_requests
                              ELSE Append(failed_requests,
                                          [letter |-> Str(letter),
                                           error |-> response["error"]])
                 last      == i + 1 = Len(Letters)
             IN  /\ exchange' = x
                 /\ result' = response
                 /\ i' = i + 1
                 /\ trace' = Append(trace, Api(Str(letter), ok))
                 /\ all_companies' = all
                 /\ failed_requests' = failed
                 /\ raised' = IF escaped THEN response["raise"] ELSE raised
                 /\ pc' = IF escaped THEN "raised"
                          ELSE IF last THEN "done" ELSE "loop"
                 /\ returned' =
                       IF last /\ ~escaped
                       THEN [success |-> TRUE,
                             total_companies |-> Len(all),
                             active_companies |-> Len(SelectSeq(all, HasTraded)),
                             data |-> <<all, SelectSeq(all, HasTraded)>>,
                             failed_requests |-> failed,
                             status_code |-> Num(200)]
                       ELSE returned
    /\ UNCHANGED <<tool, file, company_data, limit, analysis_results, metricVars, reportVars,
                   downloadVars>>

----------------------------------------------------------------------------
(* tools/enhanced_analyzer.py: the fetch loop of EnhancedInvestmentAnalyzer *)

\* EnhancedInvestmentAnalyzer.__init__ ; dividend_data starts empty and
\* stays empty unless fetch_recent_dividends is called
EnhancedConstruct ==
    /\ tool = "enhanced_analyzer"
    /\ pc = "start"
    /\ LET l == enhanced_load_company_data(file)
       IN  /\ company_data' = l.value
           /\ raised' = l.raise
           /\ pc' = IF l.raise = "none" THEN "constructed" ELSE "raised"
    /\ UNCHANGED <<tool, file, limit, i, exchange, result, analysis_results,
                   failed_requests, all_companies, returned, trace, metricVars, reportVars,
                   downloadVars>>

AnalyzeCompaniesWithDividends ==
    /\ tool = "enhanced_analyzer"
    /\ pc = "constructed"
    /\ \E l \in Limits : limit' = l
    /\ i' = 0
    /\ pc' = IF company_data = <<>> THEN "done" ELSE "loop"
    /\ UNCHANGED <<tool, file, company_data, exchange, result, analysis_results,
                   failed_requests, all_companies, returned, trace, raised,
                   metricVars, reportVars,
                   downloadVars>>

enhanced_data(symbol, ci) ==
    [symbol |-> symbol,
     name |-> Get(ci, "name", Str("N/A")),
     last_traded_price |-> Get(ci, "lastTradedPrice", Num(0)),
     change_percentage |-> Get(ci, "changePercentage", Num(0)),
     market_cap |-> Get(ci, "marketCap", Num(0)),
     risk_category |-> calculate_risk_category(ci),
     ytd_high |-> Get(ci, "high52Week", Num(0)),
     ytd_low |-> Get(ci, "low52Week", Num(0)),
     volume |-> Get(ci, "volume", Num(0)),
     turnover |-> Get(ci, "turnover", Num(0)),
     recent_dividends |-> Num(0),
     last_dividend_date |-> None]

\* one pass through the loop body (the counters successful / failed are
\* only printed); the sleep follows every pass that does not raise
EnhancedIteration ==
    /\ tool = "enhanced_analyzer"
    /\ pc = "loop"
    /\ LET total   == Len(CompaniesToAnalyze)
           company == CompaniesToAnalyze[i + 1]
           symbol  == Get(company, "symbol", Str("N/A"))
       IN  \E x \in Exchanges(CompanyInfoPayloads(symbol)) :
             LET res     == make_request(x)
                 escaped == Has(res, "raise")
                 ok      == ~escaped /\ res["success"]
                 notDict == ok /\ ~IsObj(res["data"])
                 rec     == enhanced_data(symbol, res["data"][2])
                 appended == ok /\ ~notDict
                 badFormat == appended /\ (~IsNum(rec.change_percentage)
                                           \/ ~IsNum(rec.market_cap))
                 exc     == IF escaped THEN res["raise"]
                            ELSE IF notDict THEN "AttributeError"
                            ELSE IF badFormat THEN "TypeError"
                            ELSE "none"
             IN  /\ exchange' = x
                 /\ result' = res
                 /\ i' = i + 1
                 /\ analysis_results' =
                       IF appended THEN Append(analysis_results, rec)
                       ELSE analysis_results
                 /\ trace' = Append(trace, Api(symbol, ok))
                               \o (IF exc = "none" THEN <<Sleep>> ELSE <<>>)
                 /\ raised' = exc
                 /\ pc' = IF exc # "none" THEN "raised"
                          ELSE IF i + 1 < total THEN "loop" ELSE "done"
    /\ UNCHANGED <<tool, file, company_data, limit, failed_requests,
                   all_companies, returned, metricVars, reportVars,
                   downloadVars>>

----------------------------------------------------------------------------
(* download_financial_reports.py: CSE_ReportDownloader.__init__ *)

DownloaderConstruct ==
    /\ tool = "download_financial_reports"
    /\ pc = "start"
    /\ LET l == downloader_load_company_data(file)
       IN  /\ company_data' = l.value
           /\ raised' = l.raise
           /\ pc' = IF l.raise = "none" THEN "constructed" ELSE "raised"
    /\ UNCHANGED <<tool, file, limit, i, exchange, result, analysis_results,
                   failed_requests, all_companies, returned, trace, metricVars, reportVars,
                   downloadVars>>

----------------------------------------------------------------------------
(* The tools, each started once on any content of the cache file *)

Tools == {"company_analyzer", "enhanced_analyzer", "get_all_companies",
          "download_financial_reports"}

Init ==
    /\ tool \in Tools
    /\ file \in (IF tool = "get_all_companies" THEN {<<"absent", <<>>>>}
                 ELSE Files)
    /\ pc = "start"
    /\ company_data = <<>>
    /\ limit = None
    /\ i = 0
    /\ exchange = NoExchange
    /\ result = EmptyDict
    /\ analysis_results = <<>>
    /\ failed_requests = <<>>
    /\ all_companies = <<>>
    /\ returned = EmptyDict
    /\ trace = <<>>
    /\ raised = "none"
    /\ symbol_info = EmptyDict
    /\ beta_info = EmptyDict
    /\ company_info = EmptyDict
    /\ metrics = EmptyDict
    /\ report = EmptyDict
    /\ prev_report = EmptyDict
    /\ now = 0
    /\ written = <<>>
    /\ fs = NoFileSystem
    /\ NoDownload

Next ==
    \/ AnalyzerConstruct
    \/ AnalyzeCompanies
    \/ AnalyzeIteration
    \/ GetAllCompaniesIteration
    \/ EnhancedConstruct
    \/ AnalyzeCompaniesWithDividends
    \/ EnhancedIteration
    \/ DownloaderConstruct

Spec == Init /\ [][Next]_vars

----------------------------------------------------------------------------
(* Inputs of the metric functions *)

LastPrices == {Absent, None, Q(0, 1), Q(75, 1)}

PrevCloses == {Absent, Q(0, 1), Q(50, 1)}

HighPrices == {None, Q(50, 1), Q(100, 1)}

LowPrices == {Q(0, 1), Q(50, 1), Q(100, 1)}

P12LowPrices == {Q(0, 1), Q(50, 1)}

MarketCaps == {Q(0, 1), Q(1000, 1)}

Quantities == {None, Q(10, 1)}

Volumes == {Q(0, 1), Q(10, 1)}

Turnovers == {Absent, Q(500, 1)}

Betas == {Absent, None, Q(-1, 2), Q(0, 1), Q(3, 10), Q(1, 2), Q(1, 1),
          Q(6, 5), Q(3, 2), Q(9, 5)}

SymbolInfos ==
    {Dict(f) : f \in [lastTradedPrice : LastPrices, previousClose : PrevCloses,
                      ytdHiPrice : HighPrices, ytdLowPrice : LowPrices,
                      p12HiPrice : HighPrices, p12LowPrice : P12LowPrices,
                      marketCap : MarketCaps, quantityIssued : Quantities,
                      ytdShareVolume : Volumes, ytdTurnover : Turnovers]}

BetaInfos == {Dict(f) : f \in [triASIBetaValue : Betas]}

Week52Highs == {Absent, None, Q(0, 1), Q(55, 1), Q(60, 1), Q(70, 1), Q(75, 1),
                Q(90, 1), Q(100, 1), Q(150, 1)}

CompanyInfos ==
    {Dict(f) : f \in [lastTradedPrice : {Absent, None, Q(75, 1)},
                      high52Week : Week52Highs,
                      low52Week : {Absent, Q(0, 1), Q(50, 1)},
                      triASIBetaValue : {Absent, Q(3, 10), Q(9, 5)}]}

\* records of analyze_companies_with_dividends for bodies with numeric
\* prices, after fetch_recent_dividends has filled dividend_data: the
\* price below, at and above the 52-week low and at the high; a range, a
\* high equal to the low and no range in the body
DividendRecords(symbol) ==
    {[enhanced_data(Str(symbol),
                    Dict([lastTradedPrice |-> last, high52Week |-> range[1],
                          low52Week |-> range[2]]))
         EXCEPT !.recent_dividends = Num(dividends)] :
        last \in {Num(40), Num(50), Num(60), Num(100)},
        range \in {<<Num(100), Num(50)>>, <<Num(50), Num(50)>>,
                   <<Absent, Absent>>},
        dividends \in {0, 1}}

\* self.analysis_results of the enhanced analyzer: up to two records
DividendCollections ==
    {<<>>} \cup {<<a>> : a \in DividendRecords("AAA.N0000")}
       \cup {<<a, b>> : a \in DividendRecords("AAA.N0000"),
                        b \in DividendRecords("BBB.N0000")}

----------------------------------------------------------------------------
(* The metric functions applied to every input *)

MetricsInit ==
    /\ tool \in {"calculate_investment_metrics", "_calculate_risk_category",
                 "_find_value_dividend_plays"}
    /\ pc = "input"
    /\ raised = "none"
    /\ metrics = EmptyDict
    /\ CASE tool = "calculate_investment_metrics" ->
              /\ symbol_info \in SymbolInfos
              /\ beta_info \in BetaInfos
              /\ company_info = EmptyDict
              /\ analysis_results = <<>>
         [] tool = "_calculate_risk_category" ->
              /\ symbol_info = EmptyDict
              /\ beta_info = EmptyDict
              /\ company_info \in CompanyInfos
              /\ analysis_results = <<>>
         [] OTHER ->
              /\ symbol_info = EmptyDict
              /\ beta_info = EmptyDict
              /\ company_info = EmptyDict
              /\ analysis_results \in DividendCollections
    /\ file = None
    /\ company_data = <<>>
    /\ limit = None
    /\ i = 0
    /\ exchange = NoExchange
    /\ result = EmptyDict
    /\ failed_requests = <<>>
    /\ all_companies = <<>>
    /\ returned = EmptyDict
    /\ trace = <<>>
    /\ report = EmptyDict
    /\ prev_report = EmptyDict
    /\ now = 0
    /\ written = <<>>
    /\ fs = NoFileSystem
    /\ NoDownload

CalculateInvestmentMetrics ==
    /\ tool = "calculate_investment_metrics"
    /\ pc = "input"
    /\ LET m == calculate_investment_metrics(symbol_info, beta_info)
       IN  /\ raised' = MetricsRaise(m)
           /\ metrics' = IF MetricsRaise(m) = "none" THEN m ELSE EmptyDict
    /\ pc' = "returned"
    /\ UNCHANGED <<toolVars, reportVars, downloadVars, symbol_info, beta_info, company_info>>

\* the caller stores the returned string under 'risk_category'
CalculateRiskCategory ==
    /\ tool = "_calculate_risk_category"
    /\ pc = "input"
    /\ metrics' = ("risk_category" :> calculate_risk_category(company_info))
    /\ pc' = "returned"
    /\ UNCHANGED <<toolVars, reportVars, downloadVars, raised, symbol_info, beta_info, company_info>>

----------------------------------------------------------------------------
(* pandas: a DataFrame built from a list of dicts.  It has a column for     *)
(* every key some record carries; a record without the key holds NaN there. *)
(* None and NaN are both missing values: notna() is False for them, every   *)
(* comparison with them is False and the aggregations skip them.  Indexing  *)
(* a column the frame does not have raises KeyError.                        *)

NaN == None

\* F of the value v, with v computed once
Bind(v, F(_)) == CHOOSE out \in {F(x) : x \in {v}} : TRUE

KeyError == [raise |-> "KeyError"]

Raises(v) == Has(v, "raise")

\* pd.DataFrame(records)
DataFrame(records) ==
    [columns |-> UNION {DOMAIN records[k] : k \in 1..Len(records)},
     rows |-> records]

empty(df) == df.rows = <<>>

HasColumns(df, cols) == cols \subseteq df.columns

Cell(row, c) == Get(row, c, NaN)

notna(row, c) == Cell(row, c) # NaN

gt(row, c, x) == IsNum(Cell(row, c)) /\ IsNum(x) /\ Gt(Cell(row, c), x)

lt(row, c, x) == IsNum(Cell(row, c)) /\ IsNum(x) /\ Lt(Cell(row, c), x)

ge(row, c, x) == IsNum(Cell(row, c)) /\ IsNum(x) /\ ~Lt(Cell(row, c), x)

le(row, c, x) == IsNum(Cell(row, c)) /\ IsNum(x) /\ ~Gt(Cell(row, c), x)

\* df[mask]
Where(df, mask(_)) == [df EXCEPT !.rows = SelectSeq(df.rows, mask)]

\* len(df[mask]), as a JSON number
Count(df, mask(_)) == Num(Len(SelectSeq(df.rows, mask)))

\* the values of a column that are not missing
Values(rows, c) ==
    Bind(SelectSeq(rows, LAMBDA r : notna(r, c)),
         LAMBDA present : [k \in 1..Len(present) |-> Cell(present[k], c)])

Add(a, b) == Sub(a, Sub(Q(0, 1), b))

RECURSIVE Total(_)
Total(vals) == IF vals = <<>> THEN Q(0, 1) ELSE Add(vals[1], Total(Tail(vals)))

\* the values in ascending order: the value at position k moves to the
\* rank given by the values below it and the equal values before it
SortedValues(vals) ==
    Bind(vals,
         LAMBDA v :
            LET n == Len(v)
                rank(k) ==
                   Cardinality({j \in 1..n : \/ Lt(v[j], v[k])
                                             \/ (v[j] = v[k] /\ j < k)}) + 1
            IN  [p \in 1..n |-> v[CHOOSE k \in 1..n : rank(k) = p]])

\* Series.sum(): missing values are skipped, the empty sum is 0
sum(df, c) == Bind(Values(df.rows, c), Total)

\* Series.mean(): NaN when no value is present
mean(df, c) ==
    Bind(Values(df.rows, c),
         LAMBDA vals :
            IF vals = <<>> THEN NaN ELSE Div(Total(vals), Num(Len(vals))))

\* Series.quantile(q), linear interpolation between the two nearest ranks
quantile(df, c, q) ==
    Bind(SortedValues(Values(df.rows, c)),
         LAMBDA vals :
            LET pos  == Mul(Num(Len(vals) - 1), q)
                k    == pos[1] \div pos[2]
                frac == Sub(pos, Num(k))
            IN  IF vals = <<>> THEN NaN
                ELSE IF frac = Q(0, 1) THEN vals[k + 1]
                ELSE Add(vals[k + 1],
                         Mul(Sub(vals[k + 2], vals[k + 1]), frac)))

median(df, c) == quantile(df, c, Q(1, 2))

max(df, c) ==
    Bind(SortedValues(Values(df.rows, c)),
         LAMBDA vals : IF vals = <<>> THEN NaN ELSE vals[Len(vals)])

min(df, c) ==
    Bind(SortedValues(Values(df.rows, c)),
         LAMBDA vals : IF vals = <<>> THEN NaN ELSE vals[1])

\* a sorts before b: missing keys go last in either direction
Before(a, b, ascending) ==
    /\ a # NaN
    /\ \/ b = NaN
       \/ IF ascending THEN Lt(a, b) ELSE Gt(a, b)

\* the rows in the order of column c: a row moves to the rank given by the
\* rows that sort before it and the rows of equal key that precede it
SortRows(rows, c, ascending) ==
    LET n == Len(rows)
        key(k) == Cell(rows[k], c)
        rank(k) ==
           Cardinality({j \in 1..n :
                           \/ Before(key(j), key(k), ascending)
                           \/ /\ ~Before(key(k), key(j), ascending)
                              /\ j < k}) + 1
    IN  [p \in 1..n |-> rows[CHOOSE k \in 1..n : rank(k) = p]]

\* df.sort_values(c, ascending=...): rows with equal keys keep their order
\* (the sort of fewer than 17 rows is an insertion sort)
sort_values(df, c, ascending) ==
    Bind(df, LAMBDA d : [d EXCEPT !.rows = SortRows(d.rows, c, ascending)])

\* mutant: one row more than asked for
head_oneMore(df, n) ==
    Bind(df, LAMBDA d : [d EXCEPT !.rows = SubSeq(d.rows, 1,
                                                  Min(n + 1, Len(d.rows)))])

\* df.head(n)
head(df, n) ==
    Bind(df, LAMBDA d : [d EXCEPT !.rows = SubSeq(d.rows, 1,
                                                  Min(n, Len(d.rows)))])

\* df[cols].to_dict('records')
to_records(df, cols) ==
    Bind(df.rows,
         LAMBDA rows : [k \in 1..Len(rows) |-> [c \in cols |-> Cell(rows[k], c)]])

----------------------------------------------------------------------------
(* tools/enhanced_analyzer.py: _find_value_dividend_plays *)

\* numpy's float infinities; Lt and Gt order them around every number
inf == <<1, 0>>

neg_inf == <<-1, 0>>

\* Series / Series on float64: a zero divisor gives inf, -inf or NaN
truediv(a, b) ==
    IF b # Q(0, 1) THEN Div(a, b)
    ELSE IF Gt(a, Q(0, 1)) THEN inf
    ELSE IF Lt(a, Q(0, 1)) THEN neg_inf
    ELSE NaN

fillna(v, default) == IF v = NaN THEN default ELSE v

\* dividend_df['price_position'] = (...).fillna(0.5)
price_position(row) ==
    fillna(truediv(Sub(row["last_traded_price"], row["ytd_low"]),
                   Sub(row["ytd_high"], row["ytd_low"])),
           Q(1, 2))

\* df.nsmallest(n, c): the n rows of smallest c, ties in frame order
nsmallest(df, n, c) == head(sort_values(df, c, TRUE), n)

_find_value_dividend_plays(dividend_df) ==
    IF empty(dividend_df) THEN List(<<>>)
    ELSE Bind([columns |-> dividend_df.columns \cup {"price_position"},
               rows |-> [k \in 1..Len(dividend_df.rows) |->
                           ("price_position" :>
                               price_position(dividend_df.rows[k]))
                              @@ dividend_df.rows[k]]],
              LAMBDA df :
                 List(to_records(
                         nsmallest(Where(df, LAMBDA r :
                                            /\ gt(r, "recent_dividends", Num(0))
                                            /\ lt(r, "price_position", Q(2, 5))),
                                   5, "price_position"),
                         {"symbol", "name", "last_traded_price",
                          "recent_dividends", "price_position"})))

\* generate_dividend_report passes the records with recent dividends and
\* stores the list under 'value_dividend_plays'
FindValueDividendPlays ==
    /\ tool = "_find_value_dividend_plays"
    /\ pc = "input"
    /\ metrics' =
          ("value_dividend_plays" :>
              _find_value_dividend_plays(
                 Where(DataFrame(analysis_results),
                       LAMBDA r : gt(r, "recent_dividends", Num(0)))))
    /\ pc' = "returned"
    /\ UNCHANGED <<toolVars, reportVars, downloadVars, raised, symbol_info, beta_info,
                   company_info>>

MetricsNext ==
    \/ CalculateInvestmentMetrics
    \/ CalculateRiskCategory
    \/ FindValueDividendPlays

SpecMetrics == MetricsInit /\ [][MetricsNext]_vars

----------------------------------------------------------------------------
(* company_analyzer.py: generate_investment_analysis and its sections *)

\* mutant: a price of 0 or below counts as valid price data
IsActive_anyPrice(row) == notna(row, "last_traded_price")

\* df[(df['last_traded_price'].notna()) & (df['last_traded_price'] > 0)]
IsActive(row) ==
    notna(row, "last_traded_price") /\ gt(row, "last_traded_price", Num(0))

\* head(10) of every opportunity and recommendation list
TopN == 10

_analyze_market_overview(df) ==
    IF empty(df) THEN EmptyDict
    ELSE IF ~HasColumns(df, {"market_cap", "last_traded_price"}) THEN KeyError
    ELSE Bind(<<quantile(df, "market_cap", Q(9, 10)),
                quantile(df, "market_cap", Q(3, 10))>>,
              LAMBDA quantiles :
                 LET q90 == quantiles[1]
                     q30 == quantiles[2]
                 IN  [total_market_capitalization |-> sum(df, "market_cap"),
                      average_market_cap |-> mean(df, "market_cap"),
                      median_market_cap |-> median(df, "market_cap"),
                      market_cap_distribution |->
                         [large_cap |->
                             Count(df, LAMBDA r : gt(r, "market_cap", q90)),
                          mid_cap |->
                             Count(df, LAMBDA r : gt(r, "market_cap", q30)
                                                    /\ le(r, "market_cap", q90)),
                          small_cap |->
                             Count(df, LAMBDA r : le(r, "market_cap", q30))],
                      price_ranges |->
                         [average_price |-> mean(df, "last_traded_price"),
                          median_price |-> median(df, "last_traded_price"),
                          highest_price |-> max(df, "last_traded_price"),
                          lowest_price |-> min(df, "last_traded_price")]])

_analyze_valuations(df) ==
    IF empty(df) THEN EmptyDict
    ELSE IF ~HasColumns(df, {"position_in_ytd_range"}) THEN KeyError
    ELSE Bind(Where(df, LAMBDA r : notna(r, "position_in_ytd_range")),
              LAMBDA df_with_ytd :
                 LET vol == "ytd_volatility" \in df.columns
                 IN  IF empty(df_with_ytd) THEN EmptyDict
                     ELSE [ytd_position_analysis |->
                              [near_highs |->
                                  Count(df_with_ytd,
                                        LAMBDA r : gt(r, "position_in_ytd_range",
                                                      Num(80))),
                               mid_range |->
                                  Count(df_with_ytd,
                                        LAMBDA r :
                                           /\ ge(r, "position_in_ytd_range", Num(20))
                                           /\ le(r, "position_in_ytd_range", Num(80))),
                               near_lows |->
                                  Count(df_with_ytd,
                                        LAMBDA r : lt(r, "position_in_ytd_range",
                                                      Num(20))),
                               average_position |->
                                  mean(df_with_ytd, "position_in_ytd_range")],
                           volatility_analysis |->
                              [high_volatility |->
                                  IF vol
                                  THEN Count(df, LAMBDA r :
                                                    gt(r, "ytd_volatility", Num(100)))
                                  ELSE Num(0),
                               medium_volatility |->
                                  IF vol
                                  THEN Count(df, LAMBDA r :
                                                    /\ ge(r, "ytd_volatility", Num(50))
                                                    /\ le(r, "ytd_volatility", Num(100)))
                                  ELSE Num(0),
                               low_volatility |->
                                  IF vol
                                  THEN Count(df, LAMBDA r :
                                                    lt(r, "ytd_volatility", Num(50)))
                                  ELSE Num(0)]])

_analyze_risk_profile(df) ==
    IF empty(df) THEN EmptyDict
    ELSE IF ~HasColumns(df, {"tri_asi_beta"}) THEN KeyError
    ELSE Bind(Where(df, LAMBDA r : notna(r, "tri_asi_beta")),
              LAMBDA df_with_beta :
                 IF empty(df_with_beta)
                 THEN [note |-> Str("No beta data available")]
                 ELSE [beta_distribution |->
                          [high_risk |->
                              Count(df_with_beta,
                                    LAMBDA r : gt(r, "tri_asi_beta", Q(3, 2))),
                           medium_risk |->
                              Count(df_with_beta,
                                    LAMBDA r : gt(r, "tri_asi_beta", Q(1, 1))
                                             /\ le(r, "tri_asi_beta", Q(3, 2))),
                           low_risk |->
                              Count(df_with_beta,
                                    LAMBDA r : gt(r, "tri_asi_beta", Q(1, 2))
                                             /\ le(r, "tri_asi_beta", Q(1, 1))),
                           very_low_risk |->
                              Count(df_with_beta,
                                    LAMBDA r : le(r, "tri_asi_beta", Q(1, 2)))],
                       beta_statistics |->
                          [average_beta |-> mean(df_with_beta, "tri_asi_beta"),
                           median_beta |-> median(df_with_beta, "tri_asi_beta"),
                           highest_beta |-> max(df_with_beta, "tri_asi_beta"),
                           lowest_beta |-> min(df_with_beta, "tri_asi_beta")]])

\* mutant: a change of exactly 0 is counted as a gain
_analyze_performance_zeroGains(df) ==
    IF empty(df) THEN EmptyDict
    ELSE IF ~HasColumns(df, {"change_percentage"}) THEN KeyError
    ELSE Bind(Where(df, LAMBDA r : notna(r, "change_percentage")),
              LAMBDA df_with_change :
                 [daily_performance |->
                     [gainers |->
                         Count(df_with_change,
                               LAMBDA r : ge(r, "change_percentage", Num(0))),
                      losers |->
                         Count(df_with_change,
                               LAMBDA r : lt(r, "change_percentage", Num(0))),
                      unchanged |->
                         Count(df_with_change,
                               LAMBDA r : Cell(r, "change_percentage") = Num(0)),
                      average_change |->
                         mean(df_with_change, "change_percentage"),
                      best_performer |->
                         max(df_with_change, "change_percentage"),
                      worst_performer |->
                         min(df_with_change, "change_percentage")]])

_analyze_performance(df) ==
    IF empty(df) THEN EmptyDict
    ELSE IF ~HasColumns(df, {"change_percentage"}) THEN KeyError
    ELSE Bind(Where(df, LAMBDA r : notna(r, "change_percentage")),
              LAMBDA df_with_change :
                 [daily_performance |->
                     [gainers |->
                         Count(df_with_change,
                               LAMBDA r : gt(r, "change_percentage", Num(0))),
                      losers |->
                         Count(df_with_change,
                               LAMBDA r : lt(r, "change_percentage", Num(0))),
                      unchanged |->
                         Count(df_with_change,
                               LAMBDA r : Cell(r, "change_percentage") = Num(0)),
                      average_change |->
                         mean(df_with_change, "change_percentage"),
                      best_performer |->
                         max(df_with_change, "change_percentage"),
                      worst_performer |->
                         min(df_with_change, "change_percentage")]])

_analyze_liquidity(df) ==
    IF empty(df) THEN EmptyDict
    ELSE IF ~HasColumns(df, {"today_volume"}) THEN KeyError
    ELSE Bind(Where(df, LAMBDA r : notna(r, "today_volume")
                                     /\ gt(r, "today_volume", Num(0))),
              LAMBDA df_with_volume :
                 Bind(<<quantile(df_with_volume, "today_volume", Q(4, 5)),
                        quantile(df_with_volume, "today_volume", Q(1, 5))>>,
                      LAMBDA quantiles :
                         LET q80 == quantiles[1]
                             q20 == quantiles[2]
                             turnover ==
                                "today_turnover" \in df_with_volume.columns
                         IN  IF empty(df_with_volume)
                             THEN [note |-> Str("No volume data available")]
                             ELSE [volume_analysis |->
                                      [total_volume_today |->
                                          sum(df_with_volume, "today_volume"),
                                       average_volume |->
                                          mean(df_with_volume, "today_volume"),
                                       high_volume_stocks |->
                                          Count(df_with_volume,
                                                LAMBDA r :
                                                   gt(r, "today_volume", q80)),
                                       low_volume_stocks |->
                                          Count(df_with_volume,
                                                LAMBDA r :
                                                   lt(r, "today_volume", q20))],
                                   turnover_analysis |->
                                      [total_turnover_today |->
                                          IF turnover
                                          THEN sum(df_with_volume,
                                                   "today_turnover")
                                          ELSE Num(0),
                                       companies_with_turnover |->
                                          IF turnover
                                          THEN Count(df_with_volume,
                                                  LAMBDA r :
                                                     /\ notna(r, "today_turnover")
                                                     /\ gt(r, "today_turnover",
                                                           Num(0)))
                                          ELSE Num(0)]]))

\* the first of the values that is a raise, or their union
FirstRaise(parts) ==
    Bind(parts,
         LAMBDA ps :
            IF \E k \in 1..Len(ps) : Raises(ps[k]) THEN KeyError
            ELSE LET RECURSIVE Union(_)
                     Union(k) == IF k > Len(ps) THEN EmptyDict
                                 ELSE ps[k] @@ Union(k + 1)
                 IN  Union(1))

ValueColumns ==
    {"symbol", "name", "last_traded_price", "position_in_ytd_range", "market_cap"}

GrowthColumns ==
    {"symbol", "name", "last_traded_price", "change_percentage", "today_volume"}

StableColumns ==
    {"symbol", "name", "last_traded_price", "tri_asi_beta", "market_cap"}

_identify_opportunities(df) ==
    IF empty(df) THEN EmptyDict
    ELSE LET value ==
                IF ~HasColumns(df, {"position_in_ytd_range"}) THEN KeyError
                ELSE Bind(Where(df, LAMBDA r :
                                       notna(r, "position_in_ytd_range")),
                          LAMBDA df_with_ytd :
                             LET value_opportunities ==
                                    sort_values(
                                       Where(df_with_ytd,
                                             LAMBDA r :
                                                lt(r, "position_in_ytd_range",
                                                   Num(25))),
                                       "position_in_ytd_range", TRUE)
                             IN  IF empty(df_with_ytd) THEN EmptyDict
                                 ELSE IF ~HasColumns(df, ValueColumns)
                                      THEN KeyError
                                 ELSE "value_opportunities" :>
                                         List(to_records(
                                                 head(value_opportunities, TopN),
                                                 ValueColumns)))
             growth ==
                IF ~HasColumns(df, {"change_percentage", "today_volume"})
                THEN KeyError
                ELSE Bind(Where(df, LAMBDA r :
                                       /\ gt(r, "change_percentage", Num(5))
                                       /\ notna(r, "today_volume")
                                       /\ gt(r, "today_volume", Num(0))),
                          LAMBDA df_growth :
                             LET growth_opportunities ==
                                    sort_values(df_growth, "change_percentage",
                                                FALSE)
                             IN  IF empty(df_growth) THEN EmptyDict
                                 ELSE IF ~HasColumns(df, GrowthColumns)
                                      THEN KeyError
                                 ELSE "growth_opportunities" :>
                                         List(to_records(
                                                 head(growth_opportunities, TopN),
                                                 GrowthColumns)))
             stable ==
                IF ~HasColumns(df, {"tri_asi_beta", "market_cap"}) THEN KeyError
                ELSE Bind(median(df, "market_cap"),
                          LAMBDA med :
                             Bind(Where(df, LAMBDA r :
                                               /\ notna(r, "tri_asi_beta")
                                               /\ lt(r, "tri_asi_beta", Q(1, 1))
                                               /\ gt(r, "market_cap", med)),
                                  LAMBDA df_stable :
                                     LET stable_opportunities ==
                                            sort_values(df_stable,
                                                        "tri_asi_beta", TRUE)
                                     IN  IF empty(df_stable) THEN EmptyDict
                                         ELSE IF ~HasColumns(df, StableColumns)
                                              THEN KeyError
                                         ELSE "stable_opportunities" :>
                                                 List(to_records(
                                                         head(stable_opportunities,
                                                              TopN),
                                                         StableColumns))))
         IN  FirstRaise(<<value, growth, stable>>)

\* datetime.now().strftime('%Y-%m-%d %H:%M:%S'): one text per second
strftime(t) == <<"%Y-%m-%d %H:%M:%S", t>>

\* the six sections of the report, each computed from the active subset
Sections(df_active) ==
    <<"market_overview" :> _analyze_market_overview(df_active),
      "valuation_analysis" :> _analyze_valuations(df_active),
      "risk_analysis" :> _analyze_risk_profile(df_active),
      "performance_analysis" :> _analyze_performance(df_active),
      "liquidity_analysis" :> _analyze_liquidity(df_active),
      "investment_opportunities" :> _identify_opportunities(df_active)>>

\* the report of the record collection at clock t; KeyError when a section
\* raises, since no section catches
generate_investment_analysis(records, t) ==
    IF records = <<>> THEN [error |-> Str("No data to analyze")]
    ELSE LET df == DataFrame(records)
             analysis(df_active) ==
                Bind(Sections(df_active),
                     LAMBDA sections :
                        IF \E k \in 1..Len(sections) :
                              \E key \in DOMAIN sections[k] :
                                 Raises(sections[k][key])
                        THEN KeyError
                        ELSE ("summary" :>
                                [total_companies |-> Num(Len(df.rows)),
                                 active_companies |->
                                    Num(Len(df_active.rows)),
                                 inactive_companies |->
                                    Num(Len(df.rows) - Len(df_active.rows)),
                                 analysis_date |-> strftime(t)])
                             @@ FirstRaise(sections))
         IN  IF ~HasColumns(df, {"last_traded_price"}) THEN KeyError
             ELSE Bind(Where(df, IsActive), analysis)

\* get_investment_recommendations(style): {} without records, KeyError on
\* a missing column, else the head(10) of the style's filter
get_investment_recommendations(records, style) ==
    IF records = <<>> THEN EmptyDict
    ELSE LET df == DataFrame(records)
             pick(df_active, cols, mask(_), by, ascending, out) ==
                IF ~HasColumns(df, cols \cup out) THEN KeyError
                ELSE style :>
                        List(to_records(
                                head(sort_values(Where(df_active, mask), by,
                                                 ascending), TopN),
                                out))
             recommend(df_active) ==
                CASE style = "conservative" ->
                        Bind(median(df_active, "market_cap"),
                             LAMBDA med :
                                pick(df_active, {"tri_asi_beta", "market_cap"},
                                     LAMBDA r : /\ notna(r, "tri_asi_beta")
                                                /\ lt(r, "tri_asi_beta", Q(1, 1))
                                                /\ gt(r, "market_cap", med),
                                     "tri_asi_beta", TRUE,
                                     StableColumns \cup {"risk_category"}))
                  [] style = "aggressive" ->
                        pick(df_active, {"tri_asi_beta", "change_percentage"},
                             LAMBDA r : /\ notna(r, "tri_asi_beta")
                                        /\ gt(r, "tri_asi_beta", Q(6, 5)),
                             "change_percentage", FALSE,
                             {"symbol", "name", "last_traded_price",
                              "tri_asi_beta", "change_percentage",
                              "risk_category"})
                  [] style = "value" ->
                        pick(df_active, {"position_in_ytd_range", "market_cap"},
                             LAMBDA r : /\ notna(r, "position_in_ytd_range")
                                        /\ lt(r, "position_in_ytd_range", Num(30))
                                        /\ gt(r, "market_cap", Num(0)),
                             "position_in_ytd_range", TRUE,
                             {"symbol", "name", "last_traded_price",
                              "position_in_ytd_range", "ytd_high", "ytd_low"})
                  [] OTHER ->
                        pick(df_active, {"tri_asi_beta", "market_cap"},
                             LAMBDA r : /\ notna(r, "tri_asi_beta")
                                        /\ ge(r, "tri_asi_beta", Q(1, 2))
                                        /\ le(r, "tri_asi_beta", Q(3, 2)),
                             "market_cap", FALSE,
                             StableColumns \cup {"change_percentage"})
         IN  IF ~HasColumns(df, {"last_traded_price"}) THEN KeyError
             ELSE Bind(Where(df, IsActive), recommend)

Styles == <<"conservative", "aggressive", "value", "balanced">>

\* the files save_analysis writes, in the order it writes them
Artifacts ==
    <<"analysis/raw_data", "analysis/investment_analysis",
      "reports/conservative_recommendations",
      "reports/aggressive_recommendations", "reports/value_recommendations",
      "reports/balanced_recommendations", "analysis/failed_requests">>

\* what the file system does to one save: whether the directory reports/
\* exists (save_analysis creates analysis/ only) and which step fails with
\* an OSError, if any
FileSystems ==
    [reports_dir : BOOLEAN,
     fails : {"none", "makedirs"} \cup {Artifacts[k] : k \in 1..Len(Artifacts)}]

\* what save_analysis hands to json.dump for each file, or the exception
\* raised while it is computed
SaveContents(records, failed, t) ==
    <<[data |-> records], generate_investment_analysis(records, t)>>
       \o [k \in 1..Len(Styles) |->
              get_investment_recommendations(records, Styles[k])]
       \o <<[data |-> failed]>>

\* steps k.. of save_analysis after the files in done: no step catches, so
\* the first exception ends the call and the later files are not written
RECURSIVE SaveFrom(_, _, _, _, _)
SaveFrom(k, done, contents, failed, f) ==
    IF k > Len(Artifacts) THEN [written |-> done, raise |-> "none"]
    ELSE LET inReports == k \in 3..6
             skip == \/ inReports /\ contents[k] = EmptyDict
                     \/ k = 7 /\ failed = <<>>
         IN  IF Raises(contents[k])
             THEN [written |-> done, raise |-> contents[k].raise]
             ELSE IF skip THEN SaveFrom(k + 1, done, contents, failed, f)
             ELSE IF inReports /\ ~f.reports_dir
                  THEN [written |-> done, raise |-> "FileNotFoundError"]
             ELSE IF f.fails = Artifacts[k]
                  THEN [written |-> done, raise |-> "OSError"]
             ELSE SaveFrom(k + 1, Append(done, Artifacts[k]), contents, failed,
                           f)

save_analysis(contents, failed, f) ==
    IF f.fails = "makedirs" THEN [written |-> <<>>, raise |-> "OSError"]
    ELSE SaveFrom(1, <<>>, contents, failed, f)

----------------------------------------------------------------------------
(* Record collections: every record is what one pass of the fetch loop     *)
(* stores for a companyInfoSummery body; each carries a change percentage  *)
(* or nothing at all, so that the loop goes on after storing it            *)

Summary(symbol, name, last, change, high, low, cap, volume, beta) ==
    Obj([reqSymbolInfo |->
            Obj(Dict([symbol |-> Str(symbol), name |-> name,
                      lastTradedPrice |-> last, changePercentage |-> change,
                      ytdHiPrice |-> high, ytdLowPrice |-> low,
                      marketCap |-> cap, tdyShareVolume |-> volume])),
         reqSymbolBetaInfo |-> Obj(Dict([triASIBetaValue |-> beta]))])

StoredRecord(symbol, payload) ==
    ("source_data" :> [symbol |-> Str(symbol)])
       @@ extract_comprehensive_data(payload)

\* near its low, rising, traded, low beta
RecA ==
    StoredRecord("AAA.N0000",
        Summary("AAA.N0000", Str("AAA PLC"), Num(60), Q(26, 5), Num(100),
                Num(50), Num(1000), Num(10), Q(3, 10)))

\* nearer its low, rising faster, larger
RecB ==
    StoredRecord("BBB.N0000",
        Summary("BBB.N0000", Str("BBB PLC"), Num(55), Num(8), Num(100),
                Num(50), Num(2000), Num(20), Q(1, 2)))

\* falling, not traded today, no name and no market cap in the body
RecC ==
    StoredRecord("CCC.N0000",
        Summary("CCC.N0000", Absent, Num(75), Num(-1), Num(100), Num(50),
                Absent, Num(0), Q(9, 5)))

\* unchanged, at its low, no market cap, volume and beta in the body
RecD ==
    StoredRecord("DDD.N0000",
        Summary("DDD.N0000", Str("DDD PLC"), Num(52), Num(0), Num(100),
                Num(50), None, None, Absent))

\* suspended: a last price of 0
RecE ==
    StoredRecord("EEE.N0000",
        Summary("EEE.N0000", Str("EEE PLC"), Num(0), Num(10), Num(100),
                Num(50), Num(3000), Num(10), Q(1, 5)))

\* a body without a last traded price
RecF ==
    StoredRecord("FFF.N0000",
        Summary("FFF.N0000", Absent, Absent, Num(2), Absent, Absent, Absent,
                Absent, Absent))

\* a body from which nothing could be extracted
RecG == StoredRecord("GGG.N0000", None)

\* ytd high = ytd low: no range metric
RecH ==
    StoredRecord("HHH.N0000",
        Summary("HHH.N0000", Str("HHH PLC"), Num(50), Num(6), Num(50),
                Num(50), Num(1500), Num(5), Q(4, 5)))

\* on every threshold: position 25, change 5, beta 1
RecJ ==
    StoredRecord("JJJ.N0000",
        Summary("JJJ.N0000", Str("JJJ PLC"), Q(125, 2), Num(5), Num(100),
                Num(50), Num(500), Num(1), Num(1)))

\* a beta of exactly 0
RecK ==
    StoredRecord("KKK.N0000",
        Summary("KKK.N0000", Str("KKK PLC"), Num(60), Num(1), Num(100),
                Num(50), Num(800), Num(3), Num(0)))

Records == {RecA, RecB, RecC, RecD, RecE, RecF, RecG, RecH, RecJ}

\* TopN - 2 records that pass the value and the growth filter
LongPrefix == [k \in 1..(TopN - 2) |-> IF k % 2 = 1 THEN RecA ELSE RecB]

\* no record, one, two and three records of every kind, collections
\* around TopN records that pass the value and the growth filter, and the
\* record of beta 0 alone and beside every kind
Collections ==
    {<<>>} \cup {<<a>> : a \in Records} \cup {<<a, b>> : a, b \in Records}
       \cup {<<a, b, c>> : a, b, c \in Records}
       \cup {LongPrefix \o <<a, b, c>> : a, b, c \in {RecA, RecB, RecJ}}
       \cup {<<RecK>>} \cup {<<RecK, a>> : a \in Records}

\* what failed_requests may hold beside a collection of up to two records
FailureLists ==
    {<<>>, <<[symbol |-> Str("ZZZ.N0000"), name |-> Str("Unknown"),
              error |-> Str("HTTP 500")]>>}

MaxClock == 1

ReportInit ==
    /\ tool = "investment_report"
    /\ pc = "collected"
    /\ analysis_results \in Collections
    /\ failed_requests \in (IF Len(analysis_results) <= 2 THEN FailureLists
                            ELSE {<<>>})
    /\ report = EmptyDict
    /\ prev_report = EmptyDict
    /\ now = 0
    /\ written = <<>>
    /\ fs = NoFileSystem
    /\ NoDownload
    /\ raised = "none"
    /\ file = None
    /\ company_data = <<>>
    /\ limit = None
    /\ i = 0
    /\ exchange = NoExchange
    /\ result = EmptyDict
    /\ all_companies = <<>>
    /\ returned = EmptyDict
    /\ trace = <<>>
    /\ symbol_info = EmptyDict
    /\ beta_info = EmptyDict
    /\ company_info = EmptyDict
    /\ metrics = EmptyDict

unchangedByReport ==
    <<tool, file, company_data, limit, i, exchange, result, all_companies,
      returned, trace, metricVars, downloadVars>>

\* mutant: the call keeps only the active records in self.analysis_results
GenerateInvestmentAnalysis_keepsActive ==
    /\ tool = "investment_report"
    /\ pc \in {"collected", "generated"}
    /\ \E r \in {generate_investment_analysis(analysis_results, now)} :
          /\ report' = IF Raises(r) THEN EmptyDict ELSE r
          /\ raised' = IF Raises(r) THEN r.raise ELSE "none"
    /\ prev_report' = report
    /\ pc' = IF pc = "collected" THEN "generated" ELSE "regenerated"
    /\ analysis_results' = SelectSeq(analysis_results, IsActive)
    /\ UNCHANGED <<unchangedByReport, failed_requests, now, written, fs>>

\* one call of generate_investment_analysis; a second call may follow
GenerateInvestmentAnalysis ==
    /\ tool = "investment_report"
    /\ pc \in {"collected", "generated"}
    /\ \E r \in {generate_investment_analysis(analysis_results, now)} :
          /\ report' = IF Raises(r) THEN EmptyDict ELSE r
          /\ raised' = IF Raises(r) THEN r.raise ELSE "none"
    /\ prev_report' = report
    /\ pc' = IF pc = "collected" THEN "generated" ELSE "regenerated"
    /\ UNCHANGED <<unchangedByReport, analysis_results, failed_requests, now,
                   written, fs>>

\* a second passes between the two calls
Tick ==
    /\ tool = "investment_report"
    /\ pc = "generated"
    /\ now < MaxClock
    /\ now' = now + 1
    /\ UNCHANGED <<unchangedByReport, analysis_results, failed_requests, pc,
                   raised, report, prev_report, written, fs>>

\* one call of save_analysis on any file system
SaveAnalysis ==
    /\ tool = "investment_report"
    /\ pc = "collected"
    /\ \E contents \in {SaveContents(analysis_results, failed_requests, now)} :
           \E f \in FileSystems :
              LET s == save_analysis(contents, failed_requests, f)
              IN  /\ fs' = f
                  /\ written' = s.written
                  /\ raised' = s.raise
                  /\ pc' = IF s.raise = "none" THEN "saved" ELSE "save_raised"
    /\ UNCHANGED <<unchangedByReport, analysis_results, failed_requests, now,
                   report, prev_report>>

ReportNext == GenerateInvestmentAnalysis \/ Tick \/ SaveAnalysis

SpecReport == ReportInit /\ [][ReportNext]_vars

----------------------------------------------------------------------------
(* download_financial_reports.py: texts.  A str whose characters matter is  *)
(* the sequence of its characters, so that upper(), lower(), `in`,          *)
(* replace() and splitext() are computed character by character.            *)

Text(chars) == <<"text", chars, 0, 0, 0>>

IsText(v) == Len(v) = 5

LowerCase == <<"a", "b", "c", "d", "p", "f">>

UpperCase == <<"A", "B", "C", "D", "P", "F">>

\* the letter of `to` at the position c has in `from`, c itself otherwise
MapChar(c, from, to) ==
    IF \E k \in 1..Len(from) : from[k] = c
    THEN to[CHOOSE k \in 1..Len(from) : from[k] = c]
    ELSE c

\* str.upper()
upper(t) == Text([k \in 1..Len(t[2]) |-> MapChar(t[2][k], LowerCase, UpperCase)])

\* str.lower()
lower(t) == Text([k \in 1..Len(t[2]) |-> MapChar(t[2][k], UpperCase, LowerCase)])

\* needle in haystack
In(needle, haystack) ==
    \E k \in 0..(Len(haystack[2]) - Len(needle[2])) :
        SubSeq(haystack[2], k + 1, k + Len(needle[2])) = needle[2]

\* a + b
Concat(a, b) == Text(a[2] \o b[2])

\* str.replace(char, by) for a single character
replace(t, char, by) ==
    Text([k \in 1..Len(t[2]) |-> IF t[2][k] = char THEN by ELSE t[2][k]])

DecimalDigits == <<"0", "1", "2", "3", "4", "5", "6", "7", "8", "9">>

\* str(n) of an int n >= 0
RECURSIVE Decimal(_)
Decimal(n) ==
    IF n < 10 THEN <<DecimalDigits[n + 1]>>
    ELSE Append(Decimal(n \div 10), DecimalDigits[(n % 10) + 1])

str(v) == IF IsText(v) THEN v ELSE Text(Decimal(v[1]))

\* int(t) of a text of decimal digits
RECURSIVE ParseDecimal(_)
ParseDecimal(chars) ==
    IF chars = <<>> THEN 0
    ELSE 10 * ParseDecimal(SubSeq(chars, 1, Len(chars) - 1))
            + (CHOOSE d \in 0..9 : DecimalDigits[d + 1] = chars[Len(chars)])

int(v) == IF IsText(v) THEN Num(ParseDecimal(v[2])) ELSE v

----------------------------------------------------------------------------
(* download_financial_reports.py: find_security_id, get_company_info *)

\* roster entries as the downloader reads them: symbol, name, securityId
DownloadCompanies ==
    { [symbol |-> Text(<<"A", "B", ".", "N">>), name |-> Text(<<"a", "b", "c">>),
       securityId |-> Num(12)],
      [symbol |-> Text(<<"B", "C", ".", "N">>), name |-> Text(<<"B", "c", " ", "p">>),
       securityId |-> Num(0)],
      [symbol |-> Text(<<"C", "D", ".", "N">>), name |-> Text(<<"a", "B">>),
       securityId |-> Num(7)] }

\* self.company_data after __init__: up to two entries, in either order
DownloadRosters ==
    {<<>>} \cup {<<a>> : a \in DownloadCompanies}
       \cup {p \in DownloadCompanies \X DownloadCompanies : p[1] # p[2]}

\* company_name_or_symbol: the empty text, terms in either case, a term
\* that only a name holds and a term that nothing holds
SearchTerms ==
    { Text(<<>>), Text(<<"a", "b">>), Text(<<"b", "c">>), Text(<<"D">>),
      Text(<<"p">>), Text(<<"f">>) }

\* the loop of find_security_id over the entries k..
RECURSIVE FindFrom(_, _, _)
FindFrom(roster, search_term, k) ==
    IF k > Len(roster) THEN None
    ELSE IF \/ In(search_term, upper(roster[k]["symbol"]))
            \/ In(search_term, upper(roster[k]["name"]))
         THEN roster[k]["securityId"]
         ELSE FindFrom(roster, search_term, k + 1)

\* mutant: the term is compared as typed
find_security_id_caseSensitive(roster, searched) ==
    IF roster = <<>> THEN None
    ELSE FindFrom(roster, searched, 1)

find_security_id(roster, searched) ==
    IF roster = <<>> THEN None
    ELSE FindFrom(roster, upper(searched), 1)

RECURSIVE InfoFrom(_, _, _)
InfoFrom(roster, id, k) ==
    IF k > Len(roster) THEN None
    ELSE IF roster[k]["securityId"] = id THEN roster[k]
    ELSE InfoFrom(roster, id, k + 1)

get_company_info(roster, id) ==
    IF roster = <<>> THEN None ELSE InfoFrom(roster, id, 1)

----------------------------------------------------------------------------
(* download_financial_reports.py: sanitize_filename and download_file *)

invalid_chars == <<"<", ">", ":", "\"", "/", "\\", "|", "?", "*">>

\* the loop of sanitize_filename over invalid_chars[k..]
RECURSIVE SanitizeFrom(_, _)
SanitizeFrom(filename, k) ==
    IF k > Len(invalid_chars) THEN filename
    ELSE SanitizeFrom(replace(filename, invalid_chars[k], "_"), k + 1)

sanitize_filename(filename) == SanitizeFrom(filename, 1)

\* the last position of c in chars, 0 when c does not occur
LastIndex(chars, c) ==
    IF \E k \in 1..Len(chars) : chars[k] = c
    THEN CHOOSE k \in 1..Len(chars) :
            /\ chars[k] = c
            /\ \A j \in (k + 1)..Len(chars) : chars[j] # c
    ELSE 0

\* os.path.splitext(path)[1]: from the last dot of the last path component,
\* unless the component only has leading dots before it
splitext(path) ==
    LET p   == path[2]
        sep == LastIndex(p, "/")
        dot == LastIndex(p, ".")
    IN  IF dot > sep /\ \E k \in (sep + 1)..(dot - 1) : p[k] # "."
        THEN Text(SubSeq(p, dot, Len(p)))
        ELSE Text(<<>>)

\* datetime.now().strftime("%Y%m%d_%H%M%S") at second t of the first minute
timestamp(t) ==
    Text(<<"2", "0", "2", "5", "0", "1", "0", "1", "_", "0", "0", "0", "0">>
            \o (IF t < 10 THEN <<"0">> ELSE <<>>) \o Decimal(t))

base_download_url ==
    Text(<<"h", "t", "t", "p", "s", ":", "/", "/", "c", "d", "n", ".", "c",
           "s", "e", ".", "l", "k", "/">>)

\* urljoin(base, path) for a relative path and for one that starts at the
\* root of the host
urljoin(base, path) ==
    IF path[2] # <<>> /\ path[2][1] = "/"
    THEN Concat(base, Text(Tail(path[2])))
    ELSE Concat(base, path)

\* os.path.join(folder, name)
path_join(folder, name) == Concat(folder, Concat(Text(<<"/">>), name))

\* f"{safe_company_name}_{symbol}_{safe_file_text}_{timestamp}{file_extension}"
Filename(company_name, symbol, file_text, file_path, t) ==
    LET underscore == Text(<<"_">>)
        ext == splitext(file_path)
        file_extension ==
           IF Truthy(ext) THEN ext ELSE Text(<<".", "p", "d", "f">>)
    IN  Concat(sanitize_filename(company_name),
        Concat(underscore,
        Concat(str(symbol),
        Concat(underscore,
        Concat(sanitize_filename(file_text),
        Concat(underscore,
        Concat(timestamp(t), file_extension)))))))

\* what happens to one download: the GET fails, the status is an error,
\* the file cannot be written, or the file is written
DownloadOutcomes == {"ConnectionError", "HTTPError", "OSError", "ok"}

\* the size of every downloaded document, in bytes
FileSize == 100

\* mutant: only the errors of the GET are caught
download_file_requestErrorsOnly(a, folder, t, outcome) ==
    LET full_url == urljoin(base_download_url, a["path"])
        filename == Filename(a["name"], a["symbol"], a["fileText"], a["path"], t)
    IN  IF outcome = "ok"
        THEN [success |-> TRUE, filename |-> filename,
              local_path |-> path_join(folder, filename),
              file_size |-> Num(FileSize), url |-> full_url]
        ELSE IF IsRequestException(outcome)
        THEN [success |-> FALSE, error |-> Str(outcome), url |-> full_url]
        ELSE [raise |-> outcome]

\* the dict download_file returns for the announcement a
download_file(a, folder, t, outcome) ==
    LET full_url == urljoin(base_download_url, a["path"])
        filename == Filename(a["name"], a["symbol"], a["fileText"], a["path"], t)
    IN  IF outcome = "ok"
        THEN [success |-> TRUE, filename |-> filename,
              local_path |-> path_join(folder, filename),
              file_size |-> Num(FileSize), url |-> full_url]
        ELSE IF IsRequestException(outcome)
        THEN [success |-> FALSE, error |-> Str(outcome), url |-> full_url]
        ELSE [success |-> FALSE, error |-> Str(outcome)]

\* announcements of the listing: a report text with a separator, a name
\* and a symbol with a colon, a path without an extension, a dot in a
\* directory of the path
Announcement(id, name, symbol, fileText, path) ==
    [id |-> Num(id), name |-> Text(name), symbol |-> Text(symbol),
     fileText |-> Text(fileText), path |-> Text(path),
     uploadedDate |-> Text(<<"1">>)]

Announcements ==
    { Announcement(1, <<"a", "b">>, <<"A", "B", ".", "N">>, <<"p", "/", "f">>,
                   <<"p", "/", "f", ".", "p", "d", "f">>),
      Announcement(2, <<"C", ":", "d">>, <<"C", ":", "D">>, <<"p">>,
                   <<"/", "p", "/", "f">>),
      Announcement(3, <<"B", "?">>, <<"B", "C", ".", "N">>, <<"f", "*">>,
                   <<"p", ".", "d", "/", "f">>) }

\* bodies the getFinancialAnnouncement endpoint may answer with: a listing
\* of up to two announcements, an object without the listing, a bare list
ListingPayloads ==
    {Obj([reqFinancialAnnouncemnets |-> List(l)]) :
        l \in {<<>>} \cup {<<a>> : a \in Announcements}
                 \cup {p \in Announcements \X Announcements :
                          p[1] # p[2]}}
    \cup { Obj([message |-> Str("no data")]), List(<<>>) }

----------------------------------------------------------------------------
(* download_financial_reports.py: the report download pipelines *)

\* the from_date and to_date arguments
from_date == Text(<<"1">>)

to_date == Text(<<"2">>)

\* what the file system does to one call: whether reports/ exists before
\* it, and which step fails with an OSError, if any
DownloadFileSystems ==
    [reports_dir : BOOLEAN, fails : {"none", "makedirs", "log"}]

reports_dir == Text(<<"r", "e", "p", "o", "r", "t", "s">>)

create_download_folder(folder_name, f) ==
    IF f.fails = "makedirs" THEN [raise |-> "OSError"]
    ELSE [value |-> path_join(reports_dir, folder_name)]

\* the chars of t before the first occurrence of c: t.split(c)[0]
split_first(t, c) ==
    IF \E k \in 1..Len(t[2]) : t[2][k] = c
    THEN Text(SubSeq(t[2], 1,
                     (CHOOSE k \in 1..Len(t[2]) :
                         /\ t[2][k] = c
                         /\ \A j \in 1..(k - 1) : t[2][j] # c) - 1))
    ELSE t

\* sep.join(list)
RECURSIVE join(_, _)
join(sep, list) ==
    IF list = <<>> THEN Text(<<>>)
    ELSE IF Len(list) = 1 THEN list[1]
    ELSE Concat(list[1], Concat(sep, join(sep, Tail(list))))

\* result['data']['reqFinancialAnnouncemnets'], or the exception of the
\* two subscripts
listing(r) ==
    LET data == r["data"]
    IN  IF ~IsObj(data) THEN [raise |-> "TypeError"]
        ELSE IF ~Has(data[2], "reqFinancialAnnouncemnets") THEN KeyError
        ELSE [value |-> data[2]["reqFinancialAnnouncemnets"][2]]

\* the form data of get_financial_announcements_filtered
filtered_form_data(company_ids) ==
    Dict([fromDate |-> from_date, toDate |-> to_date,
          companyIds |-> IF company_ids # None THEN company_ids ELSE Absent])

\* how the part of a pipeline before its download loop ends: it returns,
\* it raises, or it enters the loop over anns with the folder
Returns(v, files) ==
    [pc |-> "done", raised |-> "none", returned |-> v, announcements |-> <<>>,
     download_folder |-> None, written |-> files]

Escapes(e) ==
    [pc |-> "raised", raised |-> e, returned |-> EmptyDict,
     announcements |-> <<>>, download_folder |-> None, written |-> <<>>]

Loops(anns, folder) ==
    [pc |-> "downloading", raised |-> "none", returned |-> EmptyDict,
     announcements |-> anns, download_folder |-> folder, written |-> <<>>]

\* os.path.join("reports", f"download_log_{infix}{timestamp}.json")
log_filename(infix, t) ==
    path_join(reports_dir,
              Concat(Text(<<"d", "o", "w", "n", "l", "o", "a", "d", "_", "l", "o", "g", "_">>),
              Concat(infix, Concat(timestamp(t), Text(<<".", "j", "s", "o", "n">>)))))

\* the security_id the date range pipeline works with after its first lines
api_security_id(sid) == IF Truthy(sid) THEN str(sid) ELSE sid

date_range_folder_name(roster, sid) ==
    LET info ==
           IF Truthy(sid) THEN get_company_info(roster, int(api_security_id(sid)))
           ELSE None
        dates == Concat(Text(<<"_">>), Concat(from_date, Concat(Text(<<"_", "t", "o", "_">>), to_date)))
    IN  IF info # None
        THEN Concat(split_first(info["symbol"], "."), dates)
        ELSE IF Truthy(sid)
        THEN Concat(Text(<<"s", "e", "c", "I", "D", "_">>), Concat(api_security_id(sid), dates))
        ELSE Concat(Text(<<"a", "l", "l", "_", "c", "o", "m", "p", "a", "n", "i", "e", "s">>), dates)

\* download_reports_by_date_range up to its loop, on the result r of the
\* listing request and the file system f
download_reports_by_date_range(roster, sid, r, f) ==
    IF Raises(r) THEN Escapes(r.raise)
    ELSE IF ~r["success"] THEN Returns(<<>>, <<>>)
    ELSE LET l == listing(r)
         IN  IF Raises(l) THEN Escapes(l.raise)
             ELSE IF l.value = <<>> THEN Returns(<<>>, <<>>)
             ELSE LET folder ==
                         create_download_folder(
                            date_range_folder_name(roster, sid), f)
                  IN  IF Raises(folder) THEN Escapes(folder.raise)
                      ELSE Loops(l.value, folder.value)

\* announcements[:limit] for a limit >= 0
slice(anns, l) == SubSeq(anns, 1, Min(l[1], Len(anns)))

financial_folder_name(company_filter) ==
    Concat(Text(<<"a", "l", "l", "_", "r", "e", "p", "o", "r", "t", "s">>),
           IF Truthy(company_filter)
           THEN Concat(Text(<<"_", "f", "i", "l", "t", "e", "r", "e", "d", "_">>), company_filter)
           ELSE Text(<<>>))

\* download_financial_reports up to its loop; with no announcement left
\* the loop is empty and the call goes on to its log and returns
download_financial_reports(l, company_filter, r, f, t) ==
    IF Raises(r) THEN Escapes(r.raise)
    ELSE IF ~r["success"] THEN Returns(<<>>, <<>>)
    ELSE LET all == listing(r)
         IN  IF Raises(all) THEN Escapes(all.raise)
             ELSE LET named(a) == In(lower(company_filter), lower(a["name"]))
                      filtered ==
                         IF Truthy(company_filter)
                         THEN SelectSeq(all.value, named)
                         ELSE all.value
                      limited ==
                         IF Truthy(l) THEN slice(filtered, l) ELSE filtered
                      folder ==
                         create_download_folder(
                            financial_folder_name(company_filter), f)
                  IN  IF Raises(folder) THEN Escapes(folder.raise)
                      ELSE IF limited # <<>> THEN Loops(limited, folder.value)
                      ELSE IF f.fails = "log" THEN Escapes("OSError")
                      ELSE Returns(<<>>, <<log_filename(Text(<<>>), t)>>)

\* download_specific_reports up to its loop
download_specific_reports(symbols_list, r, f) ==
    IF Raises(r) THEN Escapes(r.raise)
    ELSE IF ~r["success"] THEN Returns(<<>>, <<>>)
    ELSE LET all == listing(r)
         IN  IF Raises(all) THEN Escapes(all.raise)
             ELSE LET wanted(a) ==
                         \E k \in 1..Len(symbols_list) :
                            In(upper(symbols_list[k]), upper(a["symbol"]))
                      filtered_announcements == SelectSeq(all.value, wanted)
                      folder ==
                         create_download_folder(
                            Concat(Text(<<"s", "p", "e", "c", "i", "f", "i", "c", "_", "c", "o", "m", "p", "a", "n", "i", "e", "s", "_">>),
                                   join(Text(<<"_">>), symbols_list)), f)
                  IN  IF filtered_announcements = <<>> THEN Returns(<<>>, <<>>)
                      ELSE IF Raises(folder) THEN Escapes(folder.raise)
                      ELSE Loops(filtered_announcements, folder.value)

\* the state a call leaves when the part before its loop ends as o says;
\* the file system is f once the call has touched it, and holds reports/
\* once a folder has been created
Enter(m, o, f) ==
    /\ method' = m
    /\ pc' = o.pc
    /\ raised' = o.raised
    /\ returned' = o.returned
    /\ announcements' = o.announcements
    /\ download_folder' = o.download_folder
    /\ written' = written \o o.written
    /\ fs' = IF o.pc = "downloading" \/ o.written # <<>>
             THEN [f EXCEPT !.reports_dir = TRUE]
             ELSE IF o.raised = "OSError" THEN f
             ELSE fs
    /\ i' = 0
    /\ download_results' = <<>>
    /\ successful_downloads' = 0
    /\ failed_downloads' = 0

\* the listing request with the form data d and the exchange x
Requested(d, x) ==
    /\ exchange' = x
    /\ result' = make_request(x)
    /\ trace' = Append(trace, Api(d, ~Raises(make_request(x))
                                      /\ make_request(x)["success"]))

\* security_id arguments: none, zero, the id of a roster entry as an int
\* and as a str, an id of no roster entry
SecurityIds == {None, Num(0), Num(12), Text(<<"7">>), Num(5)}

\* limit arguments of download_financial_reports
DownloadLimits == {None, Num(0), Num(1)}

\* company_filter arguments of download_financial_reports
CompanyFilters == {None, Text(<<>>), Text(<<"B">>)}

\* symbols_list arguments of download_specific_reports
SymbolLists == {<<>>, <<Text(<<"a", "b">>)>>, <<Text(<<"b", "c">>), Text(<<"d">>)>>}

DownloadReportsByDateRange ==
    /\ tool = "download_financial_reports"
    /\ pc = "constructed"
    /\ \E sid \in SecurityIds, x \in Exchanges(ListingPayloads),
          f \in DownloadFileSystems :
          /\ security_id' = api_security_id(sid)
          /\ Requested(filtered_form_data(api_security_id(sid)), x)
          /\ Enter("download_reports_by_date_range",
                   download_reports_by_date_range(company_data, sid,
                                                  make_request(x), f), f)
    /\ UNCHANGED <<tool, file, company_data, limit, analysis_results,
                   failed_requests, all_companies, symbol_or_name, now,
                   report, prev_report, metricVars>>

\* download_reports_by_company_name: no request when no security id is
\* found, the date range pipeline on the id found otherwise
DownloadReportsByCompanyName ==
    /\ tool = "download_financial_reports"
    /\ pc = "constructed"
    /\ \E term \in SearchTerms, f \in DownloadFileSystems :
          \E sid \in {find_security_id(company_data, term)} :
             /\ symbol_or_name' = term
             /\ IF sid = None
                THEN /\ security_id' = None
                     /\ Enter("download_reports_by_company_name",
                              Returns(<<>>, <<>>), fs)
                     /\ UNCHANGED <<exchange, result, trace>>
                ELSE \E x \in Exchanges(ListingPayloads) :
                        /\ security_id' = api_security_id(sid)
                        /\ Requested(filtered_form_data(api_security_id(sid)),
                                     x)
                        /\ Enter("download_reports_by_company_name",
                                 download_reports_by_date_range(
                                    company_data, sid, make_request(x), f), f)
    /\ UNCHANGED <<tool, file, company_data, limit, analysis_results,
                   failed_requests, all_companies, now, report, prev_report,
                   metricVars>>

DownloadFinancialReports ==
    /\ tool = "download_financial_reports"
    /\ pc = "constructed"
    /\ \E l \in DownloadLimits, company_filter \in CompanyFilters,
          x \in Exchanges(ListingPayloads), f \in DownloadFileSystems :
          /\ limit' = l
          /\ Requested(None, x)
          /\ Enter("download_financial_reports",
                   download_financial_reports(l, company_filter,
                                              make_request(x), f, now), f)
    /\ UNCHANGED <<tool, file, company_data, analysis_results,
                   failed_requests, all_companies, symbol_or_name,
                   security_id, now, report, prev_report, metricVars>>

DownloadSpecificReports ==
    /\ tool = "download_financial_reports"
    /\ pc = "constructed"
    /\ \E symbols_list \in SymbolLists, x \in Exchanges(ListingPayloads),
          f \in DownloadFileSystems :
          /\ Requested(None, x)
          /\ Enter("download_specific_reports",
                   download_specific_reports(symbols_list, make_request(x), f),
                   f)
    /\ UNCHANGED <<tool, file, company_data, limit, analysis_results,
                   failed_requests, all_companies, symbol_or_name,
                   security_id, now, report, prev_report, metricVars>>

\* what result.update() adds for the announcement a
Update(m, a, sid) ==
    IF m = "download_specific_reports" THEN EmptyDict
    ELSE IF m = "download_financial_reports"
    THEN [announcement_id |-> a["id"], company_name |-> a["name"],
          symbol |-> a["symbol"], file_text |-> a["fileText"],
          uploaded_date |-> a["uploadedDate"]]
    ELSE [announcement_id |-> a["id"], company_name |-> a["name"],
          symbol |-> a["symbol"], file_text |-> a["fileText"],
          uploaded_date |-> a["uploadedDate"],
          manual_date |-> GetNone(a, "manualDate"),
          security_id |-> IF Truthy(sid) THEN sid ELSE Text(<<"a", "l", "l">>),
          date_range |-> Concat(from_date, Concat(Text(<<" ", "t", "o", " ">>), to_date))]

\* the infix of the log file name of the method m
LogInfix(m, roster, sid) ==
    IF m = "download_financial_reports" THEN Text(<<>>)
    ELSE Concat(date_range_folder_name(roster, sid), Text(<<"_">>))

\* one pass through the download loop, and the end of the call after the
\* last pass: the log is written where the method keeps one
DownloadIteration ==
    /\ tool = "download_financial_reports"
    /\ pc = "downloading"
    /\ \E outcome \in DownloadOutcomes :
          \E res \in {download_file(announcements[i + 1], download_folder, now,
                                    outcome)} :
             LET last    == i + 1 = Len(announcements)
                 keepsLog == method # "download_specific_reports"
                 entry   == Update(method, announcements[i + 1], security_id)
                               @@ res
                 results == Append(download_results, entry)
                 logFails == last /\ keepsLog /\ fs.fails = "log"
             IN  IF Raises(res)
                 THEN /\ pc' = "raised"
                      /\ raised' = res.raise
                      /\ UNCHANGED <<i, download_results, successful_downloads,
                                     failed_downloads, trace, now, written,
                                     returned>>
                 ELSE /\ i' = i + 1
                      /\ download_results' = results
                      /\ successful_downloads' =
                            IF keepsLog /\ res["success"]
                            THEN successful_downloads + 1
                            ELSE successful_downloads
                      /\ failed_downloads' =
                            IF keepsLog /\ ~res["success"]
                            THEN failed_downloads + 1
                            ELSE failed_downloads
                      /\ trace' = Append(trace, Sleep)
                      /\ now' = now + 1
                      /\ written' =
                            written
                               \o (IF res["success"] THEN <<res["local_path"]>>
                                   ELSE <<>>)
                               \o (IF last /\ keepsLog /\ ~logFails
                                   THEN <<log_filename(
                                             LogInfix(method, company_data,
                                                      security_id), now + 1)>>
                                   ELSE <<>>)
                      /\ raised' = IF logFails THEN "OSError" ELSE raised
                      /\ returned' = IF last /\ ~logFails THEN results
                                     ELSE returned
                      /\ pc' = IF logFails THEN "raised"
                               ELSE IF last THEN "done" ELSE "downloading"
    /\ UNCHANGED <<tool, file, company_data, limit, exchange, result,
                   analysis_results, failed_requests, all_companies, fs,
                   method, symbol_or_name, security_id, announcements,
                   download_folder, report, prev_report, metricVars>>

DownloadInit ==
    /\ tool = "download_financial_reports"
    /\ pc = "constructed"
    /\ company_data \in DownloadRosters
    /\ file = None
    /\ limit = None
    /\ i = 0
    /\ exchange = NoExchange
    /\ result = EmptyDict
    /\ analysis_results = <<>>
    /\ failed_requests = <<>>
    /\ all_companies = <<>>
    /\ returned = EmptyDict
    /\ trace = <<>>
    /\ raised = "none"
    /\ symbol_info = EmptyDict
    /\ beta_info = EmptyDict
    /\ company_info = EmptyDict
    /\ metrics = EmptyDict
    /\ report = EmptyDict
    /\ prev_report = EmptyDict
    /\ now = 0
    /\ written = <<>>
    /\ fs = NoFileSystem
    /\ NoDownload

DownloadNext ==
    \/ DownloadReportsByDateRange
    \/ DownloadReportsByCompanyName
    \/ DownloadFinancialReports
    \/ DownloadSpecificReports
    \/ DownloadIteration

SpecDownload == DownloadInit /\ [][DownloadNext]_vars

----------------------------------------------------------------------------
(* Properties of the metric derivation *)

MetricsReturned == tool = "calculate_investment_metrics" /\ pc = "returned"

RiskReturned == tool = "_calculate_risk_category" /\ pc = "returned"

\* C7: every present beta gets exactly the bucket of the fixed thresholds:
\* > 1.5 High, > 1.0 Medium, > 0.5 Low, <= 0.5 Very Low; no present beta is
\* left without a category.
C7_EveryBetaHasItsBucket ==
    (MetricsReturned /\ Present(beta_info, "triASIBetaValue")) =>
        LET beta == beta_info["triASIBetaValue"]
        IN  /\ Has(metrics, "risk_category")
            /\ metrics["risk_category"] =
                  (IF Gt(beta, Q(3, 2)) THEN Str("High Risk")
                   ELSE IF Gt(beta, Q(1, 1)) THEN Str("Medium Risk")
                   ELSE IF Gt(beta, Q(1, 2)) THEN Str("Low Risk")
                   ELSE Str("Very Low Risk"))

\* inputs that differ from any drawn input in the fields other than beta
AltSymbolInfos ==
    { EmptyDict,
      [lastTradedPrice |-> Q(75, 1), previousClose |-> Q(50, 1),
       ytdHiPrice |-> Q(100, 1), ytdLowPrice |-> Q(50, 1),
       marketCap |-> Q(1000, 1), quantityIssued |-> Q(10, 1)],
      [lastTradedPrice |-> Q(0, 1), ytdHiPrice |-> Q(400, 1),
       ytdLowPrice |-> Q(50, 1), ytdShareVolume |-> Q(10, 1),
       ytdTurnover |-> Q(500, 1)] }

RiskField(m) == Get(m, "risk_category", Absent)

\* the category of this call equals the category of every other snapshot
\* that carries the same beta, and no beta means no category
AnalyzerRiskFromBetaOnly ==
    MetricsReturned =>
        /\ \A alt \in AltSymbolInfos :
              RiskField(calculate_investment_metrics(alt, beta_info))
                 = RiskField(metrics)
        /\ ~Present(beta_info, "triASIBetaValue") => ~Has(metrics, "risk_category")

EnhancedRiskFromBetaOnly ==
    RiskReturned =>
        /\ \A alt \in CompanyInfos :
              Get(alt, "triASIBetaValue", None)
                    = Get(company_info, "triASIBetaValue", None)
                 => calculate_risk_category(alt) = RiskField(metrics)
        /\ ~Present(company_info, "triASIBetaValue")
              => ~Has(metrics, "risk_category")

\* C8 (as stated): for every producer of risk_category, snapshots with the
\* same beta get the same category whatever their other fields are, and a
\* snapshot without beta gets no category.
C8_RiskFromBetaOnlyEveryProducer ==
    AnalyzerRiskFromBetaOnly /\ EnhancedRiskFromBetaOnly

\* C8 (amended): calculate_investment_metrics derives risk_category from
\* beta alone and leaves it out when beta is absent.
C8_AnalyzerRiskFromBetaOnly == AnalyzerRiskFromBetaOnly

C8_Witness ==
    /\ MetricsReturned
    /\ Present(beta_info, "triASIBetaValue")
    /\ beta_info["triASIBetaValue"] = Q(9, 5)
    /\ metrics["risk_category"] = Str("High Risk")
    /\ ~Truthy(Get(symbol_info, "lastTradedPrice", None))
    /\ symbol_info \notin AltSymbolInfos

\* C9: a metric with a zero or degenerate denominator is left out and no
\* call divides by zero: previousClose = 0 gives no price_change_pct, and
\* high = low gives neither the volatility nor the range position (ytd, p12).
C9_DegenerateDenominatorOmitted ==
    MetricsReturned =>
        /\ raised = "none"
        /\ ~Truthy(Get(symbol_info, "previousClose", Q(0, 1)))
              => ~Has(metrics, "price_change_pct")
        /\ Get(symbol_info, "ytdHiPrice", Q(0, 1))
                 = Get(symbol_info, "ytdLowPrice", Q(0, 1))
              => /\ ~Has(metrics, "ytd_volatility")
                 /\ ~Has(metrics, "position_in_ytd_range")
        /\ Get(symbol_info, "p12HiPrice", Q(0, 1))
                 = Get(symbol_info, "p12LowPrice", Q(0, 1))
              => /\ ~Has(metrics, "p12_volatility")
                 /\ ~Has(metrics, "position_in_p12_range")

C9_Witness ==
    /\ MetricsReturned
    /\ Get(symbol_info, "previousClose", None) = Q(0, 1)
    /\ Get(symbol_info, "lastTradedPrice", None) = Q(75, 1)
    /\ Get(symbol_info, "ytdHiPrice", None) = Q(50, 1)
    /\ Get(symbol_info, "ytdLowPrice", None) = Q(50, 1)
    /\ Get(symbol_info, "p12HiPrice", None) = Q(50, 1)
    /\ Get(symbol_info, "p12LowPrice", None) = Q(50, 1)
    /\ Has(metrics, "avg_price_ytd")

\* C10: each optional metric depends on its own inputs only: with a last
\* price and high # low the range position is present (ytd and p12), also
\* when low = 0; with ytdShareVolume # 0 and a turnover avg_price_ytd is.
C10_MetricsIndependent ==
    MetricsReturned =>
        /\ ( /\ Truthy(Get(symbol_info, "lastTradedPrice", None))
             /\ Truthy(Get(symbol_info, "ytdHiPrice", None))
             /\ Present(symbol_info, "ytdLowPrice")
             /\ symbol_info["ytdHiPrice"] # symbol_info["ytdLowPrice"] )
              => Has(metrics, "position_in_ytd_range")
        /\ ( /\ Truthy(Get(symbol_info, "ytdShareVolume", None))
             /\ Truthy(Get(symbol_info, "ytdTurnover", None)) )
              => Has(metrics, "avg_price_ytd")

\* C11: an emitted ytd_volatility equals (ytdHigh - ytdLow) / ytdLow * 100
\* and an emitted position_in_ytd_range equals (lastPrice - ytdLow) /
\* (ytdHigh - ytdLow) * 100; ytdHigh = 100, ytdLow = 50, lastPrice = 75 give
\* the position 50 and the volatility 100.
C11_RangeMetricValues ==
    MetricsReturned =>
        LET hi   == Get(symbol_info, "ytdHiPrice", Q(0, 1))
            lo   == Get(symbol_info, "ytdLowPrice", Q(0, 1))
            last == Get(symbol_info, "lastTradedPrice", Q(0, 1))
        IN  /\ Has(metrics, "ytd_volatility") =>
                  /\ IsNum(metrics["ytd_volatility"])
                  /\ Mul(metrics["ytd_volatility"], lo)
                        = Mul(Sub(hi, lo), Q(100, 1))
            /\ Has(metrics, "position_in_ytd_range") =>
                  /\ IsNum(metrics["position_in_ytd_range"])
                  /\ Mul(metrics["position_in_ytd_range"], Sub(hi, lo))
                        = Mul(Sub(last, lo), Q(100, 1))
            /\ (hi = Q(100, 1) /\ lo = Q(50, 1) /\ last = Q(75, 1)) =>
                  /\ Get(metrics, "position_in_ytd_range", None) = Q(50, 1)
                  /\ Get(metrics, "ytd_volatility", None) = Q(100, 1)

C11_Witness ==
    /\ MetricsReturned
    /\ Get(symbol_info, "ytdHiPrice", None) = Q(100, 1)
    /\ Get(symbol_info, "ytdLowPrice", None) = Q(50, 1)
    /\ Get(symbol_info, "lastTradedPrice", None) = Q(75, 1)
    /\ Has(metrics, "position_in_ytd_range")
    /\ Has(metrics, "ytd_volatility")

----------------------------------------------------------------------------
(* Properties of the fetch loops, the API client and the loaders *)

Terminated == pc \in {"done", "raised"}

IsApi(ev) == ev[1] = "api"

IsFailedApi(ev) == ev[1] = "api" /\ ev[3] = "failed"

IsStart(ev) == ev[1] = "start"

\* the events of the call that runs or ran last
RECURSIVE LastCall(_)
LastCall(t) ==
    IF t = <<>> \/ IsStart(t[Len(t)]) THEN <<>>
    ELSE Append(LastCall(SubSeq(t, 1, Len(t) - 1)), t[Len(t)])

ApiCalls == SelectSeq(LastCall(trace), IsApi)

\* the entities the running loop iterates over, by identifier
Entities ==
    IF tool = "get_all_companies"
    THEN [k \in 1..Len(Letters) |-> Str(Letters[k])]
    ELSE [k \in 1..Len(CompaniesToAnalyze) |->
             GetNone(CompaniesToAnalyze[k], "symbol")]

FailureName(rec) ==
    IF tool = "get_all_companies" THEN rec["letter"] ELSE rec["symbol"]

\* C1: in the loops of analyze_companies and get_all_companies a failing
\* entity appends exactly one FailureRecord naming it with its error, and
\* every entity after a failing one is still attempted.
C1_FailureRecordedLoopGoesOn ==
    (tool \in {"company_analyzer", "get_all_companies"} /\ Terminated) =>
        LET failedCalls == SelectSeq(trace, IsFailedApi)
        IN  /\ Len(failed_requests) = Len(failedCalls)
            /\ \A k \in 1..Len(failedCalls) :
                  /\ FailureName(failed_requests[k]) = failedCalls[k][2]
                  /\ Truthy(failed_requests[k]["error"])
            /\ failedCalls # <<>> =>
                  [k \in 1..Len(ApiCalls) |-> ApiCalls[k][2]] = Entities

\* C2: in every fetch loop a sleep separates any two consecutive API calls.
C2_SleepBetweenCalls ==
    \A k \in 1..(Len(trace) - 1) : ~(IsApi(trace[k]) /\ IsApi(trace[k + 1]))

\* C3: one run of analyze_companies requests each roster entity exactly
\* once, in roster order, and ends after the last entity.
C3_RequestsFollowRoster ==
    (tool = "company_analyzer" /\ Terminated) =>
        [k \in 1..Len(ApiCalls) |-> ApiCalls[k][2]] = Entities

\* C4: with an empty entity list (cache file missing or malformed)
\* analyze_companies ends without an API call and without raising, and both
\* analysis_results and failed_requests stay empty.
C4_EmptyRosterNoCalls ==
    (tool = "company_analyzer" /\ file[2] = <<>>) =>
        /\ raised = "none"
        /\ pc \in {"start", "constructed", "done"}
        /\ trace = <<>>
        /\ analysis_results = <<>>
        /\ failed_requests = <<>>

C4_Witness ==
    /\ tool = "company_analyzer"
    /\ file[1] = "bad_encoding"
    /\ pc = "done"
    /\ Truthy(limit)

C6_LoaderEmptyOnBadFile ==
    ( /\ tool \in {"company_analyzer", "enhanced_analyzer",
                   "download_financial_reports"}
      /\ file[1] \in {"absent", "bad_encoding", "bad_json"}
      /\ pc # "start" ) =>
        /\ raised = "none"
        /\ company_data = <<>>

\* C12: after any sequence of analyze_companies calls on one instance, over
\* any roster, no two records of analysis_results carry the same symbol.
C12_SymbolsUnique ==
    (tool = "company_analyzer" /\ pc = "done") =>
        \A j, k \in 1..Len(analysis_results) :
            ( /\ j < k
              /\ Has(analysis_results[j], "symbol")
              /\ Has(analysis_results[k], "symbol") )
               => analysis_results[j]["symbol"] # analysis_results[k]["symbol"]

----------------------------------------------------------------------------
(* Properties of the investment report *)

\* generate_investment_analysis has returned a report
Generated ==
    /\ tool = "investment_report"
    /\ pc \in {"generated", "regenerated"}
    /\ raised = "none"
    /\ Has(report, "summary")

\* a record whose last traded price is a number above 0
PricePositive(r) ==
    /\ Has(r, "last_traded_price")
    /\ IsNum(r["last_traded_price"])
    /\ r["last_traded_price"][1] > 0

ActiveIndexes == {k \in 1..Len(analysis_results) : PricePositive(analysis_results[k])}

OpportunityKinds ==
    {"value_opportunities", "growth_opportunities", "stable_opportunities"}

\* the entries of one opportunity list of the report, <<>> without the list
Opportunity(kind) ==
    IF Has(report["investment_opportunities"], kind)
    THEN report["investment_opportunities"][kind][2]
    ELSE <<>>

\* the entry shows the record: they agree on every field of the entry
Shows(entry, r) == \A c \in DOMAIN entry : entry[c] = Get(r, c, None)

\* C13: active_companies is the number of records whose last traded price
\* is present and above 0, and every entry of every opportunity list shows
\* an active record.
C13_OnlyActiveRecords ==
    Generated =>
        /\ report["summary"]["active_companies"] = Num(Cardinality(ActiveIndexes))
        /\ \A kind \in OpportunityKinds :
              \A j \in 1..Len(Opportunity(kind)) :
                 LET entry == Opportunity(kind)[j]
                 IN  /\ PricePositive(entry)
                     /\ \E k \in ActiveIndexes : Shows(entry, analysis_results[k])

C13_Witness ==
    /\ Generated
    /\ analysis_results = <<RecE, RecB, RecG>>
    /\ report["summary"]["active_companies"] = Num(1)
    /\ Len(Opportunity("growth_opportunities")) = 1

\* the field an opportunity list is sorted by
SortField(kind) ==
    CASE kind = "value_opportunities" -> "position_in_ytd_range"
      [] kind = "growth_opportunities" -> "change_percentage"
      [] OTHER -> "tri_asi_beta"

\* a ranks strictly before b in the list's sort order
RanksBefore(kind, a, b) ==
    IF kind = "growth_opportunities" THEN Gt(a, b) ELSE Lt(a, b)

\* the record passes the filter of the list
Passes(kind, r) ==
    CASE kind = "value_opportunities" ->
            /\ IsNum(Get(r, "position_in_ytd_range", None))
            /\ Lt(r["position_in_ytd_range"], Num(25))
      [] kind = "growth_opportunities" ->
            /\ IsNum(Get(r, "change_percentage", None))
            /\ Gt(r["change_percentage"], Num(5))
            /\ IsNum(Get(r, "today_volume", None))
            /\ Gt(r["today_volume"], Num(0))
      [] OTHER ->
            /\ IsNum(Get(r, "tri_asi_beta", None))
            /\ Lt(r["tri_asi_beta"], Num(1))
            /\ IsNum(Get(r, "market_cap", None))
            /\ LET active == DataFrame(SelectSeq(analysis_results, PricePositive))
               IN  /\ IsNum(median(active, "market_cap"))
                   /\ Gt(r["market_cap"], median(active, "market_cap"))

Qualifying(kind) ==
    {k \in ActiveIndexes : Passes(kind, analysis_results[k])}

C15_NoMissingFieldInOpportunities ==
    Generated =>
        \A kind \in OpportunityKinds :
           \A j \in 1..Len(Opportunity(kind)) :
              \A c \in DOMAIN Opportunity(kind)[j] :
                 Opportunity(kind)[j][c] \notin {None, NaN}

\* the active records with a market cap
WithMarketCap ==
    {k \in ActiveIndexes : IsNum(Get(analysis_results[k], "market_cap", None))}

\* C16: the cap buckets partition the active subset: with the 30th and the
\* 90th percentile of the active market caps, large is above the 90th,
\* small is at or below the 30th and mid is every other active record, so
\* the three counts add up to the number of active records.
C16_CapBucketsPartitionActive ==
    (Generated /\ ActiveIndexes # {}) =>
        LET dist   == report["market_overview"]["market_cap_distribution"]
            active == DataFrame(SelectSeq(analysis_results, PricePositive))
            p90    == quantile(active, "market_cap", Q(9, 10))
            p30    == quantile(active, "market_cap", Q(3, 10))
            cap(k) == analysis_results[k]["market_cap"]
            large  == {k \in WithMarketCap : Gt(cap(k), p90)}
            small  == {k \in WithMarketCap : ~Gt(cap(k), p30)}
        IN  /\ dist["large_cap"] = Num(Cardinality(large))
            /\ dist["small_cap"] = Num(Cardinality(small))
            /\ dist["mid_cap"] = Num(Cardinality(ActiveIndexes \ (large \cup small)))
            /\ Add(Add(dist["large_cap"], dist["mid_cap"]), dist["small_cap"])
                  = Num(Cardinality(ActiveIndexes))

\* the active records with a change percentage
WithChange ==
    {k \in ActiveIndexes :
        IsNum(Get(analysis_results[k], "change_percentage", None))}

\* C17: over the active records gainers, losers and unchanged count the
\* change percentages above, below and equal to 0, and add up to the number
\* of active records with a change percentage; the changes 5.2, -1.0 and
\* 0.0 give 1, 1 and 1.
C17_PerformanceCounts ==
    (Generated /\ ActiveIndexes # {}) =>
        LET perf == report["performance_analysis"]["daily_performance"]
            change(k) == analysis_results[k]["change_percentage"]
        IN  /\ perf["gainers"]
                  = Num(Cardinality({k \in WithChange : change(k)[1] > 0}))
            /\ perf["losers"]
                  = Num(Cardinality({k \in WithChange : change(k)[1] < 0}))
            /\ perf["unchanged"]
                  = Num(Cardinality({k \in WithChange : change(k)[1] = 0}))
            /\ Add(Add(perf["gainers"], perf["losers"]), perf["unchanged"])
                  = Num(Cardinality(WithChange))
            /\ ( /\ ActiveIndexes = 1..Len(analysis_results)
                 /\ [k \in 1..Len(analysis_results) |->
                       Get(analysis_results[k], "change_percentage", None)]
                      = <<Q(26, 5), Num(-1), Num(0)>> )
                  => /\ perf["gainers"] = Num(1)
                     /\ perf["losers"] = Num(1)
                     /\ perf["unchanged"] = Num(1)

C17_Witness ==
    /\ Generated
    /\ analysis_results = <<RecA, RecC, RecD>>
    /\ report["performance_analysis"]["daily_performance"]["gainers"] = Num(1)
    /\ report["performance_analysis"]["daily_performance"]["unchanged"] = Num(1)

\* the report without the time of the call
WithoutDate(r) ==
    IF Has(r, "summary")
    THEN [r EXCEPT !["summary"] =
             [k \in DOMAIN @ \ {"analysis_date"} |-> @[k]]]
    ELSE r

\* a step that is a call of generate_investment_analysis
GenerateStep ==
    /\ tool = "investment_report"
    /\ pc \in {"collected", "generated"}
    /\ pc' \in {"generated", "regenerated"}

HasBaseFields(r) == Has(r, "last_traded_price")

AllSections ==
    {"market_overview", "valuation_analysis", "risk_analysis",
     "performance_analysis", "liquidity_analysis", "investment_opportunities"}

\* C19: on a collection of extracted records generate_investment_analysis
\* does not raise: without an active record it returns a report with
\* active_companies = 0 and six empty sections, and with active records
\* none of which carries position_in_ytd_range it returns a report whose
\* valuation section is empty.
C19_NeverRaisesOnValidCollection ==
    ( /\ tool = "investment_report"
      /\ pc \in {"generated", "regenerated"}
      /\ analysis_results # <<>>
      /\ \A k \in 1..Len(analysis_results) : HasBaseFields(analysis_results[k]) )
    =>  /\ raised = "none"
        /\ Has(report, "summary")
        /\ ActiveIndexes = {} =>
              /\ report["summary"]["active_companies"] = Num(0)
              /\ \A section \in AllSections : report[section] = EmptyDict
        /\ (\A k \in ActiveIndexes :
               ~Has(analysis_results[k], "position_in_ytd_range"))
              => report["valuation_analysis"] = EmptyDict

\* the files a save is due to write
DueArtifacts ==
    {Artifacts[1], Artifacts[2]}
       \cup (IF analysis_results # <<>> THEN {Artifacts[k] : k \in 3..6} ELSE {})
       \cup (IF failed_requests # <<>> THEN {Artifacts[7]} ELSE {})

\* the write of the file fails on the file system of the save
WriteFails(a) ==
    \/ fs.fails = a
    \/ a \in {Artifacts[k] : k \in 3..6} /\ ~fs.reports_dir

\* C20: save_analysis writes every file independently of the others: the
\* call does not raise, and every due file whose own write does not fail is
\* written; so the failed-requests file is written whenever failed_requests
\* is not empty and its own write succeeds.
C20_ArtifactsWrittenIndependently ==
    ( /\ tool = "investment_report"
      /\ pc \in {"saved", "save_raised"}
      /\ fs.fails # "makedirs"
      /\ raised # "KeyError" )
    =>  /\ raised = "none"
        /\ \A a \in DueArtifacts :
              ~WriteFails(a) => \E k \in 1..Len(written) : written[k] = a

----------------------------------------------------------------------------
(* Properties of the fetch loops: completion, limit and the combined list *)

\* C24: analyze_companies runs to completion for every content of a
\* successful response: no exception escapes, every request of the call
\* adds exactly one record or one FailureRecord, and the call requests
\* every entity of the limited roster.
C24_LoopCompletesOnEveryBody ==
    (tool = "company_analyzer" /\ Terminated) =>
        /\ raised = "none"
        /\ Len(analysis_results) + Len(failed_requests)
              = Len(SelectSeq(trace, IsApi))
        /\ Len(ApiCalls) = Len(Entities)

\* the symbols of the first n roster entities
FirstSymbols(n) == [k \in 1..n |-> GetNone(company_data[k], "symbol")]

\* C28: limit is the maximum number of companies analyzed: a call with an
\* integer limit k >= 0 that returns has requested exactly the first
\* min(k, n) entities of a roster of n, and all n only when limit is None.
C28_LimitIsMaximum ==
    (tool \in {"company_analyzer", "enhanced_analyzer"} /\ pc = "done") =>
        [k \in 1..Len(ApiCalls) |-> ApiCalls[k][2]]
           = FirstSymbols(IF limit = None THEN Len(company_data)
                          ELSE Min(limit[1], Len(company_data)))

\* C29: get_all_companies returns under 'data' the combined list of the
\* company records of all letters: len(data) equals total_companies, and
\* data holds the records of the successful letters in letter order.
C29_DataIsCombinedList ==
    (tool = "get_all_companies" /\ pc = "done") =>
        /\ Len(returned["data"]) = returned["total_companies"]
        /\ returned["data"] = all_companies

\* C30: every letter of get_all_companies ends in exactly one of two
\* outcomes: its companies are unwrapped (from reqAlphabetical, or the bare
\* list) and added, or a FailureRecord for the letter is appended; a JSON
\* object without reqAlphabetical is recorded as a failure.
C30_LetterAddedOrFailed ==
    (tool = "get_all_companies" /\ i > 0 /\ pc \in {"loop", "done"}) =>
        LET letter == Str(Letters[i])
            recorded ==
               /\ failed_requests # <<>>
               /\ failed_requests[Len(failed_requests)]["letter"] = letter
            data == result["data"]
            unwrapped ==
               /\ result["success"]
               /\ \/ IsObj(data) /\ Has(data[2], "reqAlphabetical")
                  \/ IsList(data)
        IN  recorded <=> ~unwrapped

\* the active records that carry a beta
WithBeta ==
    {k \in ActiveIndexes :
        Get(analysis_results[k], "tri_asi_beta", None) # None}

\* the active records with a beta whose risk_category is cat
InCategory(cat) ==
    {k \in WithBeta : Get(analysis_results[k], "risk_category", None) = Str(cat)}

\* C26: each count of risk_analysis.beta_distribution is the number of
\* active records with a beta whose risk_category is that bucket, and the
\* four counts sum to the number of active records with a beta.
C26_HistogramAgreesWithCategory ==
    (Generated /\ Has(report["risk_analysis"], "beta_distribution")) =>
        LET d == report["risk_analysis"]["beta_distribution"]
        IN  /\ d["high_risk"] = Num(Cardinality(InCategory("High Risk")))
            /\ d["medium_risk"] = Num(Cardinality(InCategory("Medium Risk")))
            /\ d["low_risk"] = Num(Cardinality(InCategory("Low Risk")))
            /\ d["very_low_risk"] = Num(Cardinality(InCategory("Very Low Risk")))
            /\ Add(Add(d["high_risk"], d["medium_risk"]),
                   Add(d["low_risk"], d["very_low_risk"]))
                  = Num(Cardinality(WithBeta))

----------------------------------------------------------------------------
(* Properties of the dividend recommendations *)

\* the entries of value_dividend_plays
ValuePlays == metrics["value_dividend_plays"][2]

\* C23: no ranking key is computed from a zero denominator: a record whose
\* ytd_high equals its ytd_low never appears in value_dividend_plays,
\* whatever its last traded price is, and no price_position in the list is
\* an infinity.
C23_NoZeroRangeInValuePlays ==
    (tool = "_find_value_dividend_plays" /\ pc = "returned") =>
        \A j \in 1..Len(ValuePlays) :
           /\ ValuePlays[j]["price_position"] \notin {inf, neg_inf}
           /\ \A k \in 1..Len(analysis_results) :
                 analysis_results[k]["symbol"] = ValuePlays[j]["symbol"]
                    => analysis_results[k]["ytd_high"]
                          # analysis_results[k]["ytd_low"]

----------------------------------------------------------------------------
(* Properties of the report downloader *)

ByCompanyName == method = "download_reports_by_company_name"

\* the roster entry holds the term in its symbol or its name, whatever the
\* case of either
HoldsTerm(entry, term) ==
    \/ In(lower(term), lower(entry["symbol"]))
    \/ In(lower(term), lower(entry["name"]))

Matching ==
    {k \in 1..Len(company_data) : HoldsTerm(company_data[k], symbol_or_name)}

FirstMatch == CHOOSE k \in Matching : \A j \in Matching : k <= j

\* C27: download_reports_by_company_name resolves the term to the first
\* roster entry whose symbol or name holds it, compared without regard to
\* case.  With such an entry the call issues exactly one announcement
\* request, and the request carries companyIds equal to the securityId of
\* that entry, whatever the id; without one, or on an empty roster, the
\* call returns the empty list and issues no request.
C27_FirstMatchRestrictsRequest ==
    ByCompanyName =>
        IF Matching # {}
        THEN /\ Len(ApiCalls) = 1
             /\ Has(ApiCalls[1][2], "companyIds")
             /\ str(ApiCalls[1][2]["companyIds"])
                   = str(company_data[FirstMatch]["securityId"])
        ELSE /\ pc = "done"
             /\ raised = "none"
             /\ returned = <<>>
             /\ trace = <<>>

\* the term "bc" finds the second entry by its symbol "BC.N", whose
\* securityId is 0, and the request is restricted to it
C27_Witness ==
    /\ ByCompanyName
    /\ symbol_or_name = Text(<<"b", "c">>)
    /\ Len(company_data) = 2
    /\ Matching = {2}
    /\ company_data[2]["securityId"] = Num(0)
    /\ Len(ApiCalls) = 1
    /\ ApiCalls[1][2]["companyIds"] = Num(0)

ListingPipelines ==
    {"download_reports_by_date_range", "download_financial_reports",
     "download_specific_reports"}

\* the listing request failed, or its body holds no announcement list, or
\* the list left after the filters and the limit is empty
ListingUnusable ==
    \/ ~result["success"]
    \/ Raises(listing(result))
    \/ announcements = <<>>

\* C21: when the announcement listing is unusable (the request fails, it
\* yields no announcement, or the successful response lacks
\* reqFinancialAnnouncemnets) each of the three pipelines returns the empty
\* list and raises nothing, as long as the file system does not fail.
C21_UnusableListingReturnsEmpty ==
    (method \in ListingPipelines /\ ListingUnusable /\ raised # "OSError") =>
        /\ pc = "done"
        /\ raised = "none"
        /\ returned = <<>>

\* C22: the file name download_file builds holds none of the characters
\* < > : " / \ | ? * whatever the company name, symbol and report text.
C22_FilenameHoldsNoInvalidChar ==
    \A k \in 1..Len(download_results) :
        Has(download_results[k], "filename") =>
            \A c \in 1..Len(invalid_chars) :
                ~In(Text(<<invalid_chars[c]>>), download_results[k]["filename"])

CountingPipelines ==
    {"download_reports_by_date_range", "download_financial_reports",
     "download_reports_by_company_name"}

\* C25: in the pipelines that count, every announcement of the filtered and
\* limited listing yields exactly one entry of download_results, in listing
\* order; a failed download yields an entry with success False and the
\* loop goes on, so nothing is raised before the last announcement was
\* handled, and on return successful_downloads + failed_downloads = number
\* of announcements = length of the returned list.
C25_OneEntryPerAnnouncement ==
    method \in CountingPipelines =>
        /\ Len(download_results) = i
        /\ successful_downloads + failed_downloads = i
        /\ \A k \in 1..i :
              /\ download_results[k]["announcement_id"] = announcements[k]["id"]
              /\ Has(download_results[k], "filename")
                    <=> download_results[k]["success"]
        /\ successful_downloads
              = Len(SelectSeq(download_results, LAMBDA e : e["success"]))
        /\ (pc = "raised" /\ announcements # <<>>) => i = Len(announcements)
        /\ pc = "done" =>
              /\ returned = download_results
              /\ Len(returned) = Len(announcements)

\* two announcements: the first file cannot be written, the second is
\* downloaded, and the call returns both entries
C25_Witness ==
    /\ method \in CountingPipelines
    /\ pc = "done"
    /\ Len(announcements) = 2
    /\ Len(returned) = 2
    /\ ~returned[1]["success"]
    /\ returned[1]["error"] = Str("OSError")
    /\ returned[2]["success"]
    /\ successful_downloads = 1
    /\ failed_downloads = 1

====
